---------------------------- MODULE Spec2Model ----------------------------
(* PANO: the graph manager (ui/managers/graph_manager.py), its timeline    *)
(* and map collaborators, and the entity serialisation                     *)
(* (entities/event.py, pano.py).                                           *)
EXTENDS Integers, Sequences, FiniteSets, TLC

(***************************************************************************)
(* Bounds of the model.                                                    *)
(***************************************************************************)
NumIds == 2          \* entity identifiers are 1..NumIds
MaxNodes == 2        \* at most this many nodes are in the graph at once
MaxEdges == 2        \* at most this many edges are in the graph at once
MaxTimeline == 2     \* at most this many events are on the timeline
MaxTime == 2         \* instants are 1..MaxTime
MaxCoord == 0        \* canvas coordinates of a drop are 0..MaxCoord
MaxDocNodes == 2     \* node entries of a snapshot document that is loaded
MaxDocEdges == 1     \* edge entries of a snapshot document that is loaded

Ids == 1..NumIds
Times == 1..MaxTime

(***************************************************************************)
(* Property values.  A value is None, a datetime, or a string; a string    *)
(* is the ISO text of an instant as datetime.isoformat() writes it         *)
(* ("iso_T"), the "YYYY-MM-DD HH:MM" text of an instant ("iso_space",      *)
(* which datetime.fromisoformat() also reads), or free text that is no     *)
(* date ("text").                                                          *)
(***************************************************************************)
None == [kind |-> "none", fmt |-> "", t |-> 0]
DT(t) == [kind |-> "datetime", fmt |-> "", t |-> t]
Str(fmt, t) == [kind |-> "str", fmt |-> fmt, t |-> t]
EmptyStr == Str("empty", 0)
Malformed == Str("text", 0)
Raised == [kind |-> "error", fmt |-> "ValueError", t |-> 0]

DateTimes == {DT(t) : t \in Times}
DateStrings == {Str(f, t) : f \in {"iso_T", "iso_space"}, t \in Times} \cup {Malformed}
DateValues == {None} \cup DateTimes \cup DateStrings

\* Python truthiness of a property value ("if self.start_date:")
Truthy(v) == v # None /\ v # EmptyStr

isinstance_datetime(v) == v.kind = "datetime"
isinstance_str(v) == v.kind = "str"

\* datetime.isoformat()
isoformat(v) == Str("iso_T", v.t)

\* datetime.fromisoformat(): raises ValueError on text that is no ISO date
fromisoformat(v) ==
    IF v.kind = "str" /\ v.fmt \in {"iso_T", "iso_space"} THEN DT(v.t) ELSE Raised

(***************************************************************************)
(* Entities.  An entity has an id, a type tag and properties; the          *)
(* properties modelled are the ones the graph manager and the Event        *)
(* serialisation read.                                                     *)
(***************************************************************************)
EntityTypes == {"Person", "Location", "Event"}

Entity(id, type, start, end, tl) ==
    [id |-> id, type |-> type, start_date |-> start, end_date |-> end,
     add_to_timeline |-> tl]

Person(id) == Entity(id, "Person", None, None, TRUE)
Location(id) == Entity(id, "Location", None, None, TRUE)
Event(id, start, end, tl) == Entity(id, "Event", start, end, tl)


(***************************************************************************)
(* Entity serialisation.  Entity.to_dict / Entity.from_dict of             *)
(* entities/base.py: a flat dictionary of the identifier, the type tag     *)
(* and the properties; from_dict builds the entity of the recorded type.   *)
(***************************************************************************)
Entity_to_dict(e) ==
    [id |-> e.id, type |-> e.type, start_date |-> e.start_date,
     end_date |-> e.end_date, add_to_timeline |-> e.add_to_timeline]

Entity_base_from_dict(data) ==
    Entity(data.id, data.type, data.start_date, data.end_date, data.add_to_timeline)

\* Event.to_dict: datetimes are written as ISO strings, strings are kept
Event_date_to_dict(base, v) ==
    IF Truthy(v)
    THEN IF isinstance_datetime(v) THEN isoformat(v)
         ELSE IF isinstance_str(v) THEN v
         ELSE base
    ELSE base

Event_to_dict(e) ==
    LET data == Entity_to_dict(e)
    IN  [data EXCEPT !.start_date = Event_date_to_dict(data.start_date, e.start_date),
                     !.end_date = Event_date_to_dict(data.end_date, e.end_date)]

\* Event.from_dict: every truthy date is parsed with fromisoformat; the
\* ValueError of a text that is no ISO date is not caught
Event_date_from_dict(v) == IF Truthy(v) THEN fromisoformat(v) ELSE v

Event_from_dict(data) ==
    LET start == Event_date_from_dict(data.start_date)
        end == Event_date_from_dict(data.end_date)
    IN  IF start = Raised \/ end = Raised
        THEN Raised
        ELSE Entity_base_from_dict([data EXCEPT !.start_date = start, !.end_date = end])

\* e.to_dict() and cls.from_dict(data), dispatched on the entity class
to_dict_of(e) == IF e.type = "Event" THEN Event_to_dict(e) ELSE Entity_to_dict(e)
from_dict_of(data) ==
    IF data.type = "Event" THEN Event_from_dict(data) ELSE Entity_base_from_dict(data)

\* datetime.strftime("%Y-%m-%d %H:%M")
strftime(v) == Str("iso_space", v.t)

\* Entity.get_display_properties of entities/base.py: the properties as
\* they are
Entity_get_display_properties(e) ==
    [start_date |-> e.start_date, end_date |-> e.end_date]

\* Event.get_display_properties, one date: a datetime is formatted, a
\* string is parsed and formatted, or kept when parsing fails
Event_display_date(base, v) ==
    IF Truthy(v)
    THEN IF isinstance_datetime(v) THEN strftime(v)
         ELSE IF isinstance_str(v)
              THEN IF fromisoformat(v) # Raised THEN strftime(fromisoformat(v)) ELSE v
              ELSE base
    ELSE base

Event_get_display_properties(e) ==
    LET props == Entity_get_display_properties(e)
    IN  [props EXCEPT !.start_date = Event_display_date(props.start_date, e.start_date),
                      !.end_date = Event_display_date(props.end_date, e.end_date)]

get_display_properties(e) ==
    IF e.type = "Event" THEN Event_get_display_properties(e)
    ELSE Entity_get_display_properties(e)

\* json.dumps(..., cls=DateTimeEncoder): default() is called for the values
\* json cannot write, a datetime becomes its ISO text
DateTimeEncoder(v) == IF isinstance_datetime(v) THEN isoformat(v) ELSE v

json_dumps(data) ==
    [data EXCEPT !.start_date = DateTimeEncoder(data.start_date),
                 !.end_date = DateTimeEncoder(data.end_date)]

(***************************************************************************)
(* Graph state.                                                            *)
(*   nodes : node key -> [node : entity, pos : position]   (a NodeVisual)  *)
(*   edges : edge key -> [source, target, relationship, style]             *)
(* An edge holds references to its two NodeVisual objects.  A reference    *)
(* is <<"live", k>>, the object stored under key k of nodes, or            *)
(* <<"dead", id>>, an object that is no longer in nodes and whose entity   *)
(* had identifier id when it was taken out (nothing changes it later).     *)
(***************************************************************************)
\* pc is the position inside clear(): "clear_nodes" when the edges are gone
\* and the nodes are still to go.  lastOp is the last call: its arguments,
\* the value it returned and the notifications it sent.
VARIABLES nodes, edges, map_manager, map_locations, timeline, pc, lastOp

\* An entity on its way through to_dict, the investigation file and
\* from_dict: e_entity is the entity, e_data the dictionary written for it,
\* e_back what from_dict made of the dictionary, e_shown the display
\* properties last computed, e_pc the step reached.
VARIABLES e_entity, e_data, e_back, e_shown, e_pc

\* A transform started from a node's menu (NodeVisual._execute_transform):
\* t_pc is "awaiting" while transform.run is awaited, t_source the key of
\* the NodeVisual it was started on, t_scene whether that NodeVisual is
\* still an item of the scene (self.scene() is not None).
VARIABLES t_pc, t_source, t_scene

\* One run of a transform over what its sub-steps meet: r_name is the
\* transform, r_input what each search engine, data source or item does,
\* r_result what the run gave.
VARIABLES r_name, r_input, r_result

\* The investigation file last written (pano.py, save_investigation), and
\* the nodes and the timeline as they were when it was written.
VARIABLES f_file, f_nodes, f_timeline

\* An entity on an edit path: l_entity is [props, label], l_before the
\* entity when the path started, l_seen the labels the visuals and the
\* graph manager were handed on the path, l_path the path taken last.
VARIABLES l_entity, l_before, l_seen, l_path

\* The timeline widget (TimelineVisual): w_events is self.events, a list of
\* [id, start_time, end_time] where id stands for the identity of the
\* TimelineEvent object; w_groups is self.event_groups, whose lists and
\* keys are the identities of the events they refer to; w_op is the
\* method called last.
VARIABLES w_events, w_groups, w_op

\* A create operation of an AI answer (AIDock._create_entities): a_data is
\* the operation, a_nodes the list "nodes" and a_edges the list "edges"
\* the method built, a_op the method called last.
VARIABLES a_data, a_nodes, a_edges, a_op

\* NodeList.refresh_nodes: the slots of graph_manager.nodes in insertion order
\* (0 marks a deleted slot), the keys of _node_items, each refresh_nodes
\* coroutine's position, and the step that was taken last
VARIABLES n_dict, n_items, n_tasks, n_op

\* the refresh_nodes coroutines that may be alive at once, and one that is not
\* running
MaxRefresh == 2
RefreshTasks == 1..MaxRefresh
IdleRefresh == [pc |-> "idle", pos |-> 1, len |-> 0, used |-> 0, current_nodes |-> {}]

\* the load_investigation coroutines that may be alive at once; current_file
\* is None until a file was loaded or saved
MaxLoads == 2
LoadTasks == 1..MaxLoads
NoFileName == 0
IdleLoad == [pc |-> "idle", file_name |-> NoFileName]

\* overlapping load_investigation calls: MainWindow.current_file, each call's
\* position and the file it opened, and whether a call began while another
\* was awaiting its read
VARIABLES c_file, c_tasks, c_overlap

\* the calendar part of EmailLookup._process_ghunt_results: the calendar items
\* of the account, the Event entities made from them, and whether it has run
VARIABLES k_items, k_events, k_op

\* the handlers that may be running at once; a handler that has not called
\* start_loading has no operation id
MaxCalls == 2
Calls == 1..MaxCalls
NoOperation == 0
NoCall == [handler |-> "none", pc |-> "idle", operation_id |-> NoOperation, left |-> 0, how |-> "none"]

\* loading operations of the status bar: the handlers that are running (each
\* with its position and the operation id start_loading gave it) and the
\* StatusManager's record of the ids started and stopped
VARIABLES s_calls, s_status

gvars == <<nodes, edges, map_manager, map_locations, timeline, pc, lastOp>>
evars == <<e_entity, e_data, e_back, e_shown, e_pc>>
tvars == <<t_pc, t_source, t_scene>>
rvars == <<r_name, r_input, r_result>>
fvars == <<f_file, f_nodes, f_timeline>>
lvars == <<l_entity, l_before, l_seen, l_path>>
wvars == <<w_events, w_groups, w_op>>
avars == <<a_data, a_nodes, a_edges, a_op>>
nvars == <<n_dict, n_items, n_tasks, n_op>>
cvars == <<c_file, c_tasks, c_overlap>>
kvars == <<k_items, k_events, k_op>>
svars == <<s_calls, s_status>>
vars == <<nodes, edges, map_manager, map_locations, timeline, pc, lastOp,
          e_entity, e_data, e_back, e_shown, e_pc,
          t_pc, t_source, t_scene,
          r_name, r_input, r_result,
          f_file, f_nodes, f_timeline,
          l_entity, l_before, l_seen, l_path,
          w_events, w_groups, w_op,
          a_data, a_nodes, a_edges, a_op,
          n_dict, n_items, n_tasks, n_op,
          c_file, c_tasks, c_overlap,
          k_items, k_events, k_op,
          s_calls, s_status>>

Coords == 0..MaxCoord
Positions == {[x |-> c, y |-> MaxCoord + 1 + c] : c \in Coords}
Relationships == {"", "owns"}
\* the relationship text typed when an edge is drawn by hand
DrawnRelationships == {"owns"}
SolidLine == 1
DashLine == 2
PenStyles == {SolidLine, DashLine}

edge_id(source_id, target_id) == <<source_id, target_id>>

Live(k) == <<"live", k>>
Dead(id) == <<"dead", id>>
\* edge.source.node.id / edge.target.node.id
RefId(ns, r) == IF r[1] = "live" THEN ns[r[2]].node.id ELSE r[2]
\* is the referenced NodeVisual a value of the nodes collection
RefPresent(ns, r) == r[1] = "live" /\ r[2] \in DOMAIN ns

Restrict(f, S) == [k \in S |-> f[k]]
Put(f, k, v) == [j \in DOMAIN f \cup {k} |-> IF j = k THEN v ELSE f[j]]

\* The state a GraphManager method works on, with the notifications it has
\* sent (notes) and its return value (ret).
GState ==
    [nodes |-> nodes, edges |-> edges, map_manager |-> map_manager,
     map_locations |-> map_locations, timeline |-> timeline,
     notes |-> <<>>, ret |-> <<"None">>]


(***************************************************************************)
(* Collaborators.  The map manager keeps the identifiers it was told to    *)
(* show; the timeline widget keeps its events ordered by start_time.       *)
(***************************************************************************)
Note(g, n) == [g EXCEPT !.notes = Append(@, n)]

\* MapManager.update_location(entity) / MapManager.remove_location(id)
update_location(g, entity) ==
    Note([g EXCEPT !.map_locations = @ \cup {entity.id}], <<"update_location", entity.id>>)

remove_location(g, node_id) ==
    Note([g EXCEPT !.map_locations = @ \ {node_id}], <<"remove_location", node_id>>)

\* TimelineEvent(start_time=entity.start_date, end_time=entity.end_date)
\* with source_entity_id = entity.id
TimelineEvent(entity) ==
    [start_time |-> entity.start_date, end_time |-> entity.end_date,
     source_entity_id |-> entity.id]

\* list.sort(key=lambda x: x.start_time): a stable sort
RECURSIVE sort_insert(_, _)
sort_insert(sorted, ev) ==
    IF sorted = <<>> THEN <<ev>>
    ELSE IF sorted[Len(sorted)].start_time.t <= ev.start_time.t
         THEN Append(sorted, ev)
         ELSE Append(sort_insert(SubSeq(sorted, 1, Len(sorted) - 1), ev),
                     sorted[Len(sorted)])

RECURSIVE sort_events(_)
sort_events(events) ==
    IF events = <<>> THEN <<>>
    ELSE sort_insert(sort_events(SubSeq(events, 1, Len(events) - 1)),
                     events[Len(events)])

\* TimelineManager.add_event -> TimelineVisual.add_event: append, then sort
add_event(g, event) ==
    Note([g EXCEPT !.timeline = sort_events(Append(@, event))],
         <<"add_event", event.source_entity_id>>)

\* the two loops "existing_events = [e for e in get_events() if
\* e.source_entity_id == node_id]; for event in existing_events:
\* timeline_widget.delete_event(event)"
RECURSIVE delete_notes(_, _)
delete_notes(notes, n) ==
    IF n = 0 THEN notes ELSE delete_notes(Append(notes, <<"delete_event">>), n - 1)

delete_events_of(g, node_id) ==
    LET existing_events == SelectSeq(g.timeline, LAMBDA e : e.source_entity_id = node_id)
    IN  [g EXCEPT !.timeline = SelectSeq(@, LAMBDA e : e.source_entity_id # node_id),
                  !.notes = delete_notes(@, Len(existing_events))]

\* "entity.start_date and entity.end_date and
\*  entity.properties.get('add_to_timeline', True)"
goes_to_timeline(entity) ==
    Truthy(entity.start_date) /\ Truthy(entity.end_date) /\ entity.add_to_timeline

(***************************************************************************)
(* GraphManager methods, as functions from the state before the call to    *)
(* the state after it.                                                     *)
(***************************************************************************)
\* add_node without the "if entity.id in self.nodes" lookup
add_node_no_lookup(g, entity, pos) ==
    LET g1 == [g EXCEPT !.nodes = Put(@, entity.id, [node |-> entity, pos |-> pos])]
        g2 == IF entity.type = "Location" /\ g1.map_manager
              THEN update_location(g1, entity) ELSE g1
        g3 == IF entity.type = "Event" /\ goes_to_timeline(entity)
              THEN add_event(g2, TimelineEvent(entity)) ELSE g2
    IN  [g3 EXCEPT !.ret = <<"node", "new">>]

add_node(g, entity, pos) ==
    IF entity.id \in DOMAIN g.nodes
    THEN [g EXCEPT !.ret = <<"node", "existing">>]
    ELSE LET g1 == [g EXCEPT !.nodes = Put(@, entity.id, [node |-> entity, pos |-> pos])]
             g2 == IF entity.type = "Location" /\ g1.map_manager
                   THEN update_location(g1, entity) ELSE g1
             g3 == IF entity.type = "Event" /\ goes_to_timeline(entity)
                   THEN add_event(g2, TimelineEvent(entity)) ELSE g2
         IN  [g3 EXCEPT !.ret = <<"node", "new">>]

\* add_edge that builds a new EdgeVisual over an edge already stored
add_edge_overwrite(g, source_id, target_id, relationship) ==
    IF source_id \notin DOMAIN g.nodes \/ target_id \notin DOMAIN g.nodes
    THEN [g EXCEPT !.ret = <<"None">>]
    ELSE [g EXCEPT !.edges = Put(@, edge_id(source_id, target_id),
                                  [source |-> Live(source_id), target |-> Live(target_id),
                                   relationship |-> relationship, style |-> SolidLine]),
                   !.ret = IF edge_id(source_id, target_id) \in DOMAIN g.edges
                           THEN <<"edge", "existing">> ELSE <<"edge", "new">>]

\* add_edge that looks up the source only
add_edge_source_only(g, source_id, target_id, relationship) ==
    IF source_id \notin DOMAIN g.nodes
    THEN [g EXCEPT !.ret = <<"None">>]
    ELSE IF edge_id(source_id, target_id) \in DOMAIN g.edges
    THEN [g EXCEPT !.ret = <<"edge", "existing">>]
    ELSE [g EXCEPT !.edges = Put(@, edge_id(source_id, target_id),
                                  [source |-> Live(source_id), target |-> Live(target_id),
                                   relationship |-> relationship, style |-> SolidLine]),
                   !.ret = <<"edge", "new">>]

add_edge(g, source_id, target_id, relationship) ==
    IF source_id \notin DOMAIN g.nodes \/ target_id \notin DOMAIN g.nodes
    THEN [g EXCEPT !.ret = <<"None">>]
    ELSE IF edge_id(source_id, target_id) \in DOMAIN g.edges
    THEN [g EXCEPT !.ret = <<"edge", "existing">>]
    ELSE [g EXCEPT !.edges = Put(@, edge_id(source_id, target_id),
                                  [source |-> Live(source_id), target |-> Live(target_id),
                                   relationship |-> relationship, style |-> SolidLine]),
                   !.ret = <<"edge", "new">>]

update_node(g, node_id, entity) ==
    IF node_id \notin DOMAIN g.nodes
    THEN [g EXCEPT !.ret = <<"None">>]
    ELSE LET g1 == [g EXCEPT !.nodes[node_id].node = entity]
             g2 == IF entity.type = "Location" /\ g1.map_manager
                   THEN update_location(g1, entity) ELSE g1
             g3 == IF entity.type = "Event"
                   THEN LET g4 == delete_events_of(g2, node_id)
                        IN  IF goes_to_timeline(entity)
                            THEN add_event(g4, TimelineEvent(entity)) ELSE g4
                   ELSE g2
         IN  [g3 EXCEPT !.ret = <<"None">>]

\* a reference to the NodeVisual that remove_node pops out of nodes
Retire(r, node_id, frozen_id) == IF r = Live(node_id) THEN Dead(frozen_id) ELSE r

\* remove_node that tells the map and the timeline before it looks the
\* id up in nodes
remove_node_notify_first(g, node_id) ==
    LET g0 == delete_events_of(IF g.map_manager THEN remove_location(g, node_id) ELSE g,
                               node_id)
    IN  IF node_id \notin DOMAIN g.nodes
        THEN [g0 EXCEPT !.ret = <<"None">>]
        ELSE LET node == g.nodes[node_id]
                 edges_to_remove ==
                     {eid \in DOMAIN g0.edges :
                         \/ RefId(g0.nodes, g0.edges[eid].source) = node_id
                         \/ RefId(g0.nodes, g0.edges[eid].target) = node_id}
                 kept == DOMAIN g0.edges \ edges_to_remove
             IN  [g0 EXCEPT
                    !.edges = [eid \in kept |->
                                 [g0.edges[eid] EXCEPT
                                    !.source = Retire(@, node_id, node.node.id),
                                    !.target = Retire(@, node_id, node.node.id)]],
                    !.nodes = Restrict(@, DOMAIN @ \ {node_id}),
                    !.ret = <<"None">>]

remove_node(g, node_id) ==
    IF node_id \notin DOMAIN g.nodes
    THEN [g EXCEPT !.ret = <<"None">>]
    ELSE LET node == g.nodes[node_id]
             g1 == IF node.node.type = "Location" /\ g.map_manager
                   THEN remove_location(g, node_id) ELSE g
             edges_to_remove ==
                 {eid \in DOMAIN g1.edges :
                     \/ RefId(g1.nodes, g1.edges[eid].source) = node_id
                     \/ RefId(g1.nodes, g1.edges[eid].target) = node_id}
             kept == DOMAIN g1.edges \ edges_to_remove
             g2 == [g1 EXCEPT
                      !.edges = [eid \in kept |->
                                   [g1.edges[eid] EXCEPT
                                      !.source = Retire(@, node_id, node.node.id),
                                      !.target = Retire(@, node_id, node.node.id)]],
                      !.nodes = Restrict(@, DOMAIN @ \ {node_id})]
             g3 == IF node.node.type = "Event" THEN delete_events_of(g2, node_id) ELSE g2
         IN  [g3 EXCEPT !.ret = <<"None">>]

\* clear(): the edges are dropped, then the nodes.  clear_edges is the
\* state between the two halves.
RECURSIVE removeItem_notes(_, _, _)
removeItem_notes(notes, what, n) ==
    IF n = 0 THEN notes
    ELSE removeItem_notes(Append(notes, <<"scene.removeItem", what>>), what, n - 1)

\* clear() without "self.edges.clear()"
clear_edges_scene_only(g) ==
    [g EXCEPT !.notes = removeItem_notes(@, "edge", Cardinality(DOMAIN g.edges))]

clear_edges(g) ==
    [g EXCEPT !.notes = removeItem_notes(@, "edge", Cardinality(DOMAIN g.edges)),
              !.edges = Restrict(@, {})]
clear_nodes(g) ==
    [g EXCEPT !.notes = removeItem_notes(@, "node", Cardinality(DOMAIN g.nodes)),
              !.nodes = Restrict(@, {}),
              !.ret = <<"None">>]

\* clear() without the loop over nodes and "self.nodes.clear()"
clear_edges_only(g) == [clear_edges(g) EXCEPT !.ret = <<"None">>]

clear(g) == clear_nodes(clear_edges(g))


(***************************************************************************)
(* Snapshot documents.  A document lists node entries [entity, pos] and    *)
(* edge entries [source, target, relationship, style] in the order of      *)
(* the dictionaries; from_dict reads only the values of the two            *)
(* dictionaries, never their keys.                                         *)
(***************************************************************************)
\* the sequences that list the elements of a finite set once each
Orderings(S) ==
    {q \in [1..Cardinality(S) -> S] : \A x \in S : \E i \in DOMAIN q : q[i] = x}

node_to_dict(g, node_id) ==
    [key |-> node_id,
     entity |-> to_dict_of(g.nodes[node_id].node),
     pos |-> [x |-> g.nodes[node_id].pos.x, y |-> g.nodes[node_id].pos.y]]

edge_to_dict(g, eid) ==
    [key |-> eid,
     source |-> RefId(g.nodes, g.edges[eid].source),
     target |-> RefId(g.nodes, g.edges[eid].target),
     relationship |-> g.edges[eid].relationship,
     style |-> g.edges[eid].style]

\* GraphManager.to_dict, for one iteration order of the two dictionaries
to_dict(g, node_order, edge_order) ==
    [nodes |-> [i \in DOMAIN node_order |-> node_to_dict(g, node_order[i])],
     edges |-> [i \in DOMAIN edge_order |-> edge_to_dict(g, edge_order[i])]]

\* "for node_id, node_data in data['nodes'].items()": Entity.from_dict,
\* QPointF(x, y), add_node; an exception of Entity.from_dict ends the load
RECURSIVE restore_nodes(_, _, _)
restore_nodes(g, entries, i) ==
    IF i > Len(entries) THEN g
    ELSE LET entity == from_dict_of(entries[i].entity)
             pos == [x |-> entries[i].pos.x, y |-> entries[i].pos.y]
         IN  IF entity = Raised
             THEN [g EXCEPT !.ret = <<"raise">>]
             ELSE restore_nodes(add_node(g, entity, pos), entries, i + 1)

\* "for edge_id, edge_data in data['edges'].items()": add_edge, then the
\* style is set on the edge add_edge returned
RECURSIVE restore_edges(_, _, _)
restore_edges(g, entries, i) ==
    IF i > Len(entries) THEN g
    ELSE LET d == entries[i]
             g1 == add_edge(g, d.source, d.target, d.relationship)
             g2 == IF g1.ret[1] = "edge"
                   THEN [g1 EXCEPT !.edges[edge_id(d.source, d.target)].style = d.style]
                   ELSE g1
         IN  restore_edges(g2, entries, i + 1)

from_dict(g, data) ==
    LET g1 == restore_nodes([clear(g) EXCEPT !.ret = <<"ok">>], data.nodes, 1)
    IN  IF g1.ret = <<"raise">>
        THEN g1
        ELSE [restore_edges(g1, data.edges, 1) EXCEPT !.ret = <<"None">>]


(***************************************************************************)
(* Inputs.                                                                 *)
(***************************************************************************)
\* An identifier belongs to one entity, so it fixes the entity class.
TypeOf(id) ==
    CASE id % 3 = 1 -> "Event"
      [] id % 3 = 2 -> "Location"
      [] OTHER -> "Person"

\* the instant an Event of the given id starts at
StartOf(id) == ((id - 1) % MaxTime) + 1

EntitiesOf(id) ==
    IF TypeOf(id) = "Event"
    THEN {Event(id, DT(StartOf(id)), DT(MaxTime), TRUE)}
    ELSE {Entity(id, TypeOf(id), None, None, TRUE)}

\* the identifier of another entity, for an update_node(node_id, entity)
\* whose entity is not the one the node holds
OtherId(id) == (id % NumIds) + 1

GraphEntities == UNION {EntitiesOf(id) : id \in Ids}

SeqsUpTo(S, n) == UNION {[1..m -> S] : m \in 0..n}

\* the position written in the documents
DocPos == [x |-> 0, y |-> MaxCoord + 1]
DocNodeEntries ==
    {[key |-> e.id, entity |-> to_dict_of(e), pos |-> DocPos] :
        e \in {x \in GraphEntities : x.type = "Event" => Truthy(x.start_date)}}
    \cup {[key |-> id, entity |-> Event_to_dict(Event(id, Malformed, None, TRUE)),
           pos |-> DocPos] : id \in {i \in Ids : TypeOf(i) = "Event"}}
DocEdge(s, t) ==
    [key |-> edge_id(s, t), source |-> s, target |-> t,
     relationship |-> "", style |-> DashLine]
DocEdgeEntries == {DocEdge(s, OtherId(s)) : s \in Ids}

\* documents written by hand or by another run
Documents ==
    {[nodes |-> ns, edges |-> es] :
        ns \in SeqsUpTo(DocNodeEntries, MaxDocNodes),
        es \in SeqsUpTo(DocEdgeEntries, MaxDocEdges)}

\* the documents to_dict() writes for the current graph
Snapshots ==
    {to_dict(GState, no, eo) : no \in Orderings(DOMAIN nodes),
                               eo \in Orderings(DOMAIN edges)}

(***************************************************************************)
(* Actions: one per GraphManager method.                                   *)
(***************************************************************************)
WithinBounds(g) ==
    /\ Cardinality(DOMAIN g.nodes) <= MaxNodes
    /\ Cardinality(DOMAIN g.edges) <= MaxEdges
    /\ Len(g.timeline) <= MaxTimeline

Commit(g, op) ==
    /\ WithinBounds(g)
    /\ nodes' = g.nodes
    /\ edges' = g.edges
    /\ map_locations' = g.map_locations
    /\ timeline' = g.timeline
    /\ lastOp' = [op |-> op, ret |-> g.ret, notes |-> g.notes]

Init ==
    /\ nodes = Restrict(<<>>, {})
    /\ edges = Restrict(<<>>, {})
    /\ map_manager = FALSE
    /\ map_locations = {}
    /\ timeline = <<>>
    /\ pc = "idle"
    /\ lastOp = [op |-> "init", ret |-> <<"None">>, notes |-> <<>>]
    /\ e_entity = None
    /\ e_data = None
    /\ e_back = None
    /\ e_shown = None
    /\ t_pc = "idle"
    /\ t_source = 0
    /\ t_scene = FALSE
    /\ r_name = "none"
    /\ r_input = <<>>
    /\ r_result = [kind |-> "return", entities |-> <<>>, derived |-> <<>>]
    /\ f_file = [nodes |-> <<>>, edges |-> <<>>, written |-> FALSE]
    /\ f_nodes = Restrict(<<>>, {})
    /\ f_timeline = <<>>
    /\ s_calls = [c \in Calls |-> NoCall]
    /\ s_status = [started |-> {}, stopped |-> {}, next |-> 1]
    /\ k_items = <<>>
    /\ k_events = <<>>
    /\ k_op = "none"
    /\ c_file = NoFileName
    /\ c_tasks = [t \in LoadTasks |-> IdleLoad]
    /\ c_overlap = FALSE
    /\ n_dict = <<>>
    /\ n_items = {}
    /\ n_tasks = [t \in RefreshTasks |-> IdleRefresh]
    /\ n_op = "none"
    /\ a_data = [entities |-> <<>>, connections |-> <<>>]
    /\ a_nodes = <<>>
    /\ a_edges = <<>>
    /\ a_op = "none"
    /\ w_events = <<>>
    /\ w_groups = <<>>
    /\ w_op = "none"
    /\ l_entity = [props |-> [name |-> 1, notes |-> 1], label |-> [text |-> 1]]
    /\ l_before = [props |-> [name |-> 1, notes |-> 1], label |-> [text |-> 1]]
    /\ l_seen = <<>>
    /\ l_path = "none"
    /\ e_pc = "off"

\* set_map_manager: called once, by MainWindow.__init__, on the empty graph
SetMapManager ==
    /\ pc = "idle"
    /\ ~map_manager
    /\ DOMAIN nodes = {}
    /\ map_manager' = TRUE
    /\ lastOp' = [op |-> "set_map_manager", ret |-> <<"None">>, notes |-> <<>>]
    /\ UNCHANGED <<nodes, edges, map_locations, timeline, pc>>
    /\ UNCHANGED evars
    /\ UNCHANGED tvars
    /\ UNCHANGED rvars
    /\ UNCHANGED fvars
    /\ UNCHANGED lvars
    /\ UNCHANGED wvars
    /\ UNCHANGED avars
    /\ UNCHANGED nvars
    /\ UNCHANGED cvars
    /\ UNCHANGED kvars
    /\ UNCHANGED svars

AddNode ==
    /\ pc = "idle"
    /\ \E entity \in GraphEntities, pos \in Positions :
          Commit(add_node(GState, entity, pos), "add_node")
    /\ UNCHANGED <<map_manager, pc>>
    /\ UNCHANGED evars
    /\ UNCHANGED tvars
    /\ UNCHANGED rvars
    /\ UNCHANGED fvars
    /\ UNCHANGED lvars
    /\ UNCHANGED wvars
    /\ UNCHANGED avars
    /\ UNCHANGED nvars
    /\ UNCHANGED cvars
    /\ UNCHANGED kvars
    /\ UNCHANGED svars

AddEdge ==
    /\ pc = "idle"
    /\ \E source_id \in Ids, target_id \in Ids, relationship \in DrawnRelationships :
          Commit(add_edge(GState, source_id, target_id, relationship),
                 "add_edge")
    /\ UNCHANGED <<map_manager, pc>>
    /\ UNCHANGED evars
    /\ UNCHANGED tvars
    /\ UNCHANGED rvars
    /\ UNCHANGED fvars
    /\ UNCHANGED lvars
    /\ UNCHANGED wvars
    /\ UNCHANGED avars
    /\ UNCHANGED nvars
    /\ UNCHANGED cvars
    /\ UNCHANGED kvars
    /\ UNCHANGED svars

UpdateNode ==
    /\ pc = "idle"
    /\ \E node_id \in Ids :
       \E entity \in EntitiesOf(node_id) \cup EntitiesOf(OtherId(node_id)) :
          Commit(update_node(GState, node_id, entity), "update_node")
    /\ UNCHANGED <<map_manager, pc>>
    /\ UNCHANGED evars
    /\ UNCHANGED tvars
    /\ UNCHANGED rvars
    /\ UNCHANGED fvars
    /\ UNCHANGED lvars
    /\ UNCHANGED wvars
    /\ UNCHANGED avars
    /\ UNCHANGED nvars
    /\ UNCHANGED cvars
    /\ UNCHANGED kvars
    /\ UNCHANGED svars

RemoveNode ==
    /\ pc = "idle"
    /\ \E node_id \in Ids :
          Commit(remove_node(GState, node_id), "remove_node")
    /\ UNCHANGED <<map_manager, pc>>
    /\ UNCHANGED evars
    /\ UNCHANGED tvars
    /\ UNCHANGED rvars
    /\ UNCHANGED fvars
    /\ UNCHANGED lvars
    /\ UNCHANGED wvars
    /\ UNCHANGED avars
    /\ UNCHANGED nvars
    /\ UNCHANGED cvars
    /\ UNCHANGED kvars
    /\ UNCHANGED svars

\* clear(), first half: every edge leaves the scene and the collection
ClearEdges ==
    /\ pc = "idle"
    /\ Commit(clear_edges(GState), "clear")
    /\ pc' = "clear_nodes"
    /\ UNCHANGED map_manager
    /\ UNCHANGED evars
    /\ UNCHANGED tvars
    /\ UNCHANGED rvars
    /\ UNCHANGED fvars
    /\ UNCHANGED lvars
    /\ UNCHANGED wvars
    /\ UNCHANGED avars
    /\ UNCHANGED nvars
    /\ UNCHANGED cvars
    /\ UNCHANGED kvars
    /\ UNCHANGED svars

\* clear(), second half: every node leaves the scene and the collection
ClearNodes ==
    /\ pc = "clear_nodes"
    /\ Commit(clear_nodes([GState EXCEPT !.notes = lastOp.notes]), "clear")
    /\ pc' = "idle"
    /\ UNCHANGED map_manager
    /\ UNCHANGED evars
    /\ UNCHANGED tvars
    /\ UNCHANGED rvars
    /\ UNCHANGED fvars
    /\ UNCHANGED lvars
    /\ UNCHANGED wvars
    /\ UNCHANGED avars
    /\ UNCHANGED nvars
    /\ UNCHANGED cvars
    /\ UNCHANGED kvars
    /\ UNCHANGED svars

\* from_dict(data); the trailing "await asyncio.sleep(0)" changes nothing
FromDict ==
    /\ pc = "idle"
    /\ \E data \in Documents \cup Snapshots :
          Commit(from_dict(GState, data), "from_dict")
    /\ UNCHANGED <<map_manager, pc>>
    /\ UNCHANGED evars
    /\ UNCHANGED tvars
    /\ UNCHANGED rvars
    /\ UNCHANGED fvars
    /\ UNCHANGED lvars
    /\ UNCHANGED wvars
    /\ UNCHANGED avars
    /\ UNCHANGED nvars
    /\ UNCHANGED cvars
    /\ UNCHANGED kvars
    /\ UNCHANGED svars

Next ==
    \/ SetMapManager
    \/ AddNode
    \/ AddEdge
    \/ UpdateNode
    \/ RemoveNode
    \/ ClearEdges
    \/ ClearNodes
    \/ FromDict

Spec == Init /\ [][Next]_vars


(***************************************************************************)
(* The way of one entity through serialisation: to_dict, the investigation *)
(* file (json.dump with DateTimeEncoder, json.load), from_dict.  The dates  *)
(* of an Event are datetimes (property editor, transforms), strings (the   *)
(* properties an AI answer carries are stored as they come; the timeline   *)
(* reads day/month/year texts too) or absent.                              *)
(***************************************************************************)
EntityDateValues == DateValues \cup {EmptyStr}
EntityInputs ==
    {Person(id) : id \in Ids} \cup {Location(id) : id \in Ids}
      \cup {Event(id, start, end, tl) :
                id \in Ids, start \in EntityDateValues, end \in EntityDateValues,
                tl \in BOOLEAN}

InitEntity ==
    /\ nodes = Restrict(<<>>, {})
    /\ edges = Restrict(<<>>, {})
    /\ map_manager = FALSE
    /\ map_locations = {}
    /\ timeline = <<>>
    /\ pc = "idle"
    /\ lastOp = [op |-> "init", ret |-> <<"None">>, notes |-> <<>>]
    /\ e_entity \in EntityInputs
    /\ e_data = None
    /\ e_back = None
    /\ e_shown = None
    /\ t_pc = "idle"
    /\ t_source = 0
    /\ t_scene = FALSE
    /\ r_name = "none"
    /\ r_input = <<>>
    /\ r_result = [kind |-> "return", entities |-> <<>>, derived |-> <<>>]
    /\ f_file = [nodes |-> <<>>, edges |-> <<>>, written |-> FALSE]
    /\ f_nodes = Restrict(<<>>, {})
    /\ f_timeline = <<>>
    /\ s_calls = [c \in Calls |-> NoCall]
    /\ s_status = [started |-> {}, stopped |-> {}, next |-> 1]
    /\ k_items = <<>>
    /\ k_events = <<>>
    /\ k_op = "none"
    /\ c_file = NoFileName
    /\ c_tasks = [t \in LoadTasks |-> IdleLoad]
    /\ c_overlap = FALSE
    /\ n_dict = <<>>
    /\ n_items = {}
    /\ n_tasks = [t \in RefreshTasks |-> IdleRefresh]
    /\ n_op = "none"
    /\ a_data = [entities |-> <<>>, connections |-> <<>>]
    /\ a_nodes = <<>>
    /\ a_edges = <<>>
    /\ a_op = "none"
    /\ w_events = <<>>
    /\ w_groups = <<>>
    /\ w_op = "none"
    /\ l_entity = [props |-> [name |-> 1, notes |-> 1], label |-> [text |-> 1]]
    /\ l_before = [props |-> [name |-> 1, notes |-> 1], label |-> [text |-> 1]]
    /\ l_seen = <<>>
    /\ l_path = "none"
    /\ e_pc = "entity"

\* data = entity.to_dict()
EntityToDict ==
    /\ e_pc = "entity"
    /\ e_data' = to_dict_of(e_entity)
    /\ e_pc' = "dict"
    /\ UNCHANGED <<e_entity, e_back, e_shown>>
    /\ UNCHANGED gvars
    /\ UNCHANGED tvars
    /\ UNCHANGED rvars
    /\ UNCHANGED fvars
    /\ UNCHANGED lvars
    /\ UNCHANGED wvars
    /\ UNCHANGED avars
    /\ UNCHANGED nvars
    /\ UNCHANGED cvars
    /\ UNCHANGED kvars
    /\ UNCHANGED svars

\* json.dump(..., cls=DateTimeEncoder) into the file, json.load out of it
EntityJson ==
    /\ e_pc = "dict"
    /\ e_data' = json_dumps(e_data)
    /\ e_pc' = "json"
    /\ UNCHANGED <<e_entity, e_back, e_shown>>
    /\ UNCHANGED gvars
    /\ UNCHANGED tvars
    /\ UNCHANGED rvars
    /\ UNCHANGED fvars
    /\ UNCHANGED lvars
    /\ UNCHANGED wvars
    /\ UNCHANGED avars
    /\ UNCHANGED nvars
    /\ UNCHANGED cvars
    /\ UNCHANGED kvars
    /\ UNCHANGED svars

\* entity = cls.from_dict(data), on the dictionary or on what the file gave
EntityFromDict ==
    /\ e_pc \in {"dict", "json"}
    /\ e_back' = from_dict_of(e_data)
    /\ e_pc' = "back"
    /\ UNCHANGED <<e_entity, e_data, e_shown>>
    /\ UNCHANGED gvars
    /\ UNCHANGED tvars
    /\ UNCHANGED rvars
    /\ UNCHANGED fvars
    /\ UNCHANGED lvars
    /\ UNCHANGED wvars
    /\ UNCHANGED avars
    /\ UNCHANGED nvars
    /\ UNCHANGED cvars
    /\ UNCHANGED kvars
    /\ UNCHANGED svars

\* entity.get_display_properties(), of the entity or of the one read back
EntityDisplay ==
    /\ e_pc \in {"entity", "back"}
    /\ LET e == IF e_pc = "entity" THEN e_entity ELSE e_back
       IN  /\ e # Raised
           /\ e_shown' = get_display_properties(e)
    /\ e_pc' = IF e_pc = "entity" THEN "shown" ELSE "back_shown"
    /\ UNCHANGED <<e_entity, e_data, e_back>>
    /\ UNCHANGED gvars
    /\ UNCHANGED tvars
    /\ UNCHANGED rvars
    /\ UNCHANGED fvars
    /\ UNCHANGED lvars
    /\ UNCHANGED wvars
    /\ UNCHANGED avars
    /\ UNCHANGED nvars
    /\ UNCHANGED cvars
    /\ UNCHANGED kvars
    /\ UNCHANGED svars

NextEntity ==
    \/ EntityToDict
    \/ EntityJson
    \/ EntityFromDict
    \/ EntityDisplay

SpecEntity == InitEntity /\ [][NextEntity]_vars


(***************************************************************************)
(* The node operations alone (add_node, update_node, remove_node), with    *)
(* Events that do and do not go to the timeline: with both dates and the   *)
(* flag, with add_to_timeline false, without a start date, without an end  *)
(* date.                                                                   *)
(***************************************************************************)
EventVariants(id) ==
    {Event(id, DT(StartOf(id)), DT(MaxTime), TRUE),
     Event(id, DT(StartOf(id)), DT(MaxTime), FALSE),
     Event(id, None, DT(MaxTime), TRUE),
     Event(id, DT(StartOf(id)), None, TRUE)}

NodeEntitiesOf(id) == IF TypeOf(id) = "Event" THEN EventVariants(id) ELSE EntitiesOf(id)

AddNode_any ==
    /\ pc = "idle"
    /\ \E id \in Ids :
       \E entity \in NodeEntitiesOf(id), pos \in Positions :
          Commit(add_node(GState, entity, pos), "add_node")
    /\ UNCHANGED <<map_manager, pc>>
    /\ UNCHANGED evars
    /\ UNCHANGED tvars
    /\ UNCHANGED rvars
    /\ UNCHANGED fvars
    /\ UNCHANGED lvars
    /\ UNCHANGED wvars
    /\ UNCHANGED avars
    /\ UNCHANGED nvars
    /\ UNCHANGED cvars
    /\ UNCHANGED kvars
    /\ UNCHANGED svars

UpdateNode_any ==
    /\ pc = "idle"
    /\ \E node_id \in Ids :
       \E entity \in NodeEntitiesOf(node_id) \cup NodeEntitiesOf(OtherId(node_id)) :
          Commit(update_node(GState, node_id, entity), "update_node")
    /\ UNCHANGED <<map_manager, pc>>
    /\ UNCHANGED evars
    /\ UNCHANGED tvars
    /\ UNCHANGED rvars
    /\ UNCHANGED fvars
    /\ UNCHANGED lvars
    /\ UNCHANGED wvars
    /\ UNCHANGED avars
    /\ UNCHANGED nvars
    /\ UNCHANGED cvars
    /\ UNCHANGED kvars
    /\ UNCHANGED svars

NextNodes ==
    \/ SetMapManager
    \/ AddNode_any
    \/ UpdateNode_any
    \/ RemoveNode

SpecNodes == Init /\ [][NextNodes]_vars


(***************************************************************************)
(* Edits of the properties of a node's entity.  The property editor        *)
(* writes what its dialog returns into entity.properties and calls         *)
(* update_node; an AI answer's new_properties are written with             *)
(* properties.update and the node is redrawn.  The validator declared for  *)
(* a datetime property (entities/base.py) accepts an absent value, a       *)
(* datetime and a string that reads as an ISO date.                        *)
(***************************************************************************)
datetime_validator(v) ==
    \/ v = None
    \/ isinstance_datetime(v)
    \/ (isinstance_str(v) /\ fromisoformat(v) # Raised)

\* PropertyEditor.get_properties: a date is the QDateTimeEdit's datetime
\* when its checkbox is checked, None otherwise
EditorDateValues == {None} \cup DateTimes

\* NodeVisual._edit_properties
EditProperties ==
    /\ pc = "idle"
    /\ \E k \in DOMAIN nodes :
       \E start \in EditorDateValues, end \in EditorDateValues :
          LET entity == IF nodes[k].node.type = "Event"
                        THEN [nodes[k].node EXCEPT !.start_date = start, !.end_date = end]
                        ELSE nodes[k].node
              g == [GState EXCEPT !.nodes[k].node = entity]
          IN  Commit(update_node(g, entity.id, entity), "edit_properties")
    /\ UNCHANGED <<map_manager, pc>>
    /\ UNCHANGED evars
    /\ UNCHANGED tvars
    /\ UNCHANGED rvars
    /\ UNCHANGED fvars
    /\ UNCHANGED lvars
    /\ UNCHANGED wvars
    /\ UNCHANGED avars
    /\ UNCHANGED nvars
    /\ UNCHANGED cvars
    /\ UNCHANGED kvars
    /\ UNCHANGED svars

\* AIDock._update_entities: existing_node.node.properties.update(new_properties)
AIUpdate ==
    /\ pc = "idle"
    /\ \E k \in DOMAIN nodes :
       \E prop \in {"start_date", "end_date"}, v \in DateStrings :
          /\ nodes[k].node.type = "Event"
          /\ nodes' = [nodes EXCEPT ![k].node[prop] = v]
    /\ lastOp' = [op |-> "ai_update", ret |-> <<"None">>, notes |-> <<>>]
    /\ UNCHANGED <<edges, map_manager, map_locations, timeline, pc>>
    /\ UNCHANGED evars
    /\ UNCHANGED tvars
    /\ UNCHANGED rvars
    /\ UNCHANGED fvars
    /\ UNCHANGED lvars
    /\ UNCHANGED wvars
    /\ UNCHANGED avars
    /\ UNCHANGED nvars
    /\ UNCHANGED cvars
    /\ UNCHANGED kvars
    /\ UNCHANGED svars

NextEdit ==
    \/ AddNode
    \/ EditProperties
    \/ AIUpdate

SpecEdit == Init /\ [][NextEdit]_vars


(***************************************************************************)
(* GraphView: its own add_node and the timeline synchronisation it runs    *)
(* for an Event (after add_node, and as the on_properties_changed callback *)
(* of a selected Event node).                                              *)
(***************************************************************************)
\* GraphView.sync_event_to_timeline
sync_event_to_timeline(g, entity) ==
    IF Truthy(entity.start_date) /\ Truthy(entity.end_date)
    THEN add_event(delete_events_of(g, entity.id), TimelineEvent(entity))
    ELSE g

\* GraphView.add_node
GraphView_add_node(g, entity, pos) ==
    LET g1 == add_node(g, entity, pos)
    IN  IF entity.type = "Event"
        THEN [sync_event_to_timeline(g1, entity) EXCEPT !.ret = g1.ret]
        ELSE g1

GraphViewAddNode ==
    /\ pc = "idle"
    /\ \E id \in Ids :
       \E entity \in NodeEntitiesOf(id), pos \in Positions :
          Commit(GraphView_add_node(GState, entity, pos), "GraphView.add_node")
    /\ UNCHANGED <<map_manager, pc>>
    /\ UNCHANGED evars
    /\ UNCHANGED tvars
    /\ UNCHANGED rvars
    /\ UNCHANGED fvars
    /\ UNCHANGED lvars
    /\ UNCHANGED wvars
    /\ UNCHANGED avars
    /\ UNCHANGED nvars
    /\ UNCHANGED cvars
    /\ UNCHANGED kvars
    /\ UNCHANGED svars

\* on_properties_changed of a selected Event node
SyncEventToTimeline ==
    /\ pc = "idle"
    /\ \E k \in DOMAIN nodes :
          /\ nodes[k].node.type = "Event"
          /\ Commit(sync_event_to_timeline(GState, nodes[k].node), "sync_event_to_timeline")
    /\ UNCHANGED <<map_manager, pc>>
    /\ UNCHANGED evars
    /\ UNCHANGED tvars
    /\ UNCHANGED rvars
    /\ UNCHANGED fvars
    /\ UNCHANGED lvars
    /\ UNCHANGED wvars
    /\ UNCHANGED avars
    /\ UNCHANGED nvars
    /\ UNCHANGED cvars
    /\ UNCHANGED kvars
    /\ UNCHANGED svars

NextView ==
    \/ SetMapManager
    \/ AddNode_any
    \/ GraphViewAddNode
    \/ SyncEventToTimeline
    \/ EditProperties
    \/ RemoveNode

SpecView == Init /\ [][NextView]_vars


(***************************************************************************)
(* The node operations with a collaborator that raises.  failing is the    *)
(* set of collaborators ("map", "timeline") whose next call raises; the    *)
(* methods catch nothing, so the exception leaves the method at that call  *)
(* with what was done before it.                                           *)
(***************************************************************************)
Collaborators == {"map", "timeline"}

add_node_raising(g, entity, pos, failing) ==
    IF /\ entity.id \notin DOMAIN g.nodes
       /\ \/ entity.type = "Location" /\ g.map_manager /\ "map" \in failing
          \/ entity.type = "Event" /\ goes_to_timeline(entity) /\ "timeline" \in failing
    THEN [g EXCEPT !.nodes = Put(@, entity.id, [node |-> entity, pos |-> pos]),
                   !.ret = <<"raise">>]
    ELSE add_node(g, entity, pos)

update_node_raising(g, node_id, entity, failing) ==
    IF /\ node_id \in DOMAIN g.nodes
       /\ \/ entity.type = "Location" /\ g.map_manager /\ "map" \in failing
          \/ entity.type = "Event" /\ "timeline" \in failing
    THEN [g EXCEPT !.nodes[node_id].node = entity, !.ret = <<"raise">>]
    ELSE update_node(g, node_id, entity)

remove_node_raising(g, node_id, failing) ==
    IF node_id \notin DOMAIN g.nodes THEN remove_node(g, node_id)
    ELSE IF g.nodes[node_id].node.type = "Location" /\ g.map_manager /\ "map" \in failing
    THEN [g EXCEPT !.ret = <<"raise">>]
    ELSE IF g.nodes[node_id].node.type = "Event" /\ "timeline" \in failing
    THEN [remove_node(g, node_id) EXCEPT !.timeline = g.timeline,
                                         !.notes = <<>>,
                                         !.ret = <<"raise">>]
    ELSE remove_node(g, node_id)

AddNodeRaising ==
    /\ pc = "idle"
    /\ \E id \in Ids, failing \in SUBSET Collaborators :
       \E entity \in NodeEntitiesOf(id), pos \in Positions :
          Commit(add_node_raising(GState, entity, pos, failing), "add_node")
    /\ UNCHANGED <<map_manager, pc>>
    /\ UNCHANGED evars
    /\ UNCHANGED tvars
    /\ UNCHANGED rvars
    /\ UNCHANGED fvars
    /\ UNCHANGED lvars
    /\ UNCHANGED wvars
    /\ UNCHANGED avars
    /\ UNCHANGED nvars
    /\ UNCHANGED cvars
    /\ UNCHANGED kvars
    /\ UNCHANGED svars

UpdateNodeRaising ==
    /\ pc = "idle"
    /\ \E node_id \in Ids, failing \in SUBSET Collaborators :
       \E entity \in NodeEntitiesOf(node_id) :
          Commit(update_node_raising(GState, node_id, entity, failing), "update_node")
    /\ UNCHANGED <<map_manager, pc>>
    /\ UNCHANGED evars
    /\ UNCHANGED tvars
    /\ UNCHANGED rvars
    /\ UNCHANGED fvars
    /\ UNCHANGED lvars
    /\ UNCHANGED wvars
    /\ UNCHANGED avars
    /\ UNCHANGED nvars
    /\ UNCHANGED cvars
    /\ UNCHANGED kvars
    /\ UNCHANGED svars

RemoveNodeRaising ==
    /\ pc = "idle"
    /\ \E node_id \in Ids, failing \in SUBSET Collaborators :
          Commit(remove_node_raising(GState, node_id, failing), "remove_node")
    /\ UNCHANGED <<map_manager, pc>>
    /\ UNCHANGED evars
    /\ UNCHANGED tvars
    /\ UNCHANGED rvars
    /\ UNCHANGED fvars
    /\ UNCHANGED lvars
    /\ UNCHANGED wvars
    /\ UNCHANGED avars
    /\ UNCHANGED nvars
    /\ UNCHANGED cvars
    /\ UNCHANGED kvars
    /\ UNCHANGED svars

NextRaising ==
    \/ SetMapManager
    \/ AddNodeRaising
    \/ AddEdge
    \/ UpdateNodeRaising
    \/ RemoveNodeRaising

SpecRaising == Init /\ [][NextRaising]_vars


(***************************************************************************)
(* Transforms.  NodeVisual._execute_transform awaits transform.run, which  *)
(* raises, returns no entity (the transforms report a failure that way)    *)
(* or returns entities; while it is awaited the event loop runs other      *)
(* handlers.  An outcome is [kind, entities]: for "raise" the entities are  *)
(* what run had derived when it failed, which nobody receives.             *)
(***************************************************************************)
MaxResults == 2

Outcomes ==
    {[kind |-> kd, entities |-> es] :
        kd \in {"raise", "ok"}, es \in SeqsUpTo(GraphEntities, MaxResults)}

\* new_pos: the i-th point of the circle around the source, within the
\* coordinates of the model
circle_pos(source_pos, i) == [x |-> i % (MaxCoord + 1), y |-> source_pos.y]

\* "for i, entity in enumerate(new_entities)": add_node, then add_edge
\* from the source
RECURSIVE add_results(_, _, _, _, _)
add_results(g, source_id, source_pos, entities, i) ==
    IF i > Len(entities) THEN g
    ELSE LET g1 == add_node(g, entities[i], circle_pos(source_pos, i))
             g2 == add_edge(g1, source_id, entities[i].id, "")
         IN  add_results(g2, source_id, source_pos, entities, i + 1)

\* the loop over the entities in a "finally:" instead of after the await
execute_transform_finally(g, source_id, source_pos, in_scene, outcome) ==
    IF outcome.entities = <<>>
    THEN [g EXCEPT !.ret = IF outcome.kind = "raise" THEN <<"raise", "run">>
                           ELSE <<"None", "no entities">>]
    ELSE IF ~in_scene THEN [g EXCEPT !.ret = <<"raise", "scene">>]
    ELSE [add_results(g, source_id, source_pos, outcome.entities, 1)
            EXCEPT !.ret = IF outcome.kind = "raise" THEN <<"raise", "run">>
                           ELSE <<"None", "added">>]

\* the view looked up before the await and used after it
execute_transform_view_kept(g, source_id, source_pos, in_scene, outcome) ==
    IF outcome.kind = "raise" THEN [g EXCEPT !.ret = <<"raise", "run">>]
    ELSE IF outcome.entities = <<>> THEN [g EXCEPT !.ret = <<"None", "no entities">>]
    ELSE [add_results(g, source_id, source_pos, outcome.entities, 1)
            EXCEPT !.ret = <<"None", "added">>]

\* _execute_transform from the return of transform.run on: source_id is
\* self.node.id, in_scene tells whether self.scene() is a scene; for a
\* NodeVisual taken out of the scene self.scene() is None and
\* "self.scene().views()" raises
execute_transform(g, source_id, source_pos, in_scene, outcome) ==
    IF outcome.kind = "raise" THEN [g EXCEPT !.ret = <<"raise", "run">>]
    ELSE IF outcome.entities = <<>> THEN [g EXCEPT !.ret = <<"None", "no entities">>]
    ELSE IF ~in_scene THEN [g EXCEPT !.ret = <<"raise", "scene">>]
    ELSE [add_results(g, source_id, source_pos, outcome.entities, 1)
            EXCEPT !.ret = <<"None", "added">>]

\* _handle_transform_action: the task is created and runs up to the await
TransformStart ==
    /\ pc = "idle"
    /\ t_pc = "idle"
    /\ \E k \in DOMAIN nodes : t_source' = k
    /\ t_scene' = TRUE
    /\ t_pc' = "awaiting"
    /\ lastOp' = [op |-> "transform_start", ret |-> <<"None">>, notes |-> <<>>]
    /\ UNCHANGED <<nodes, edges, map_manager, map_locations, timeline, pc>>
    /\ UNCHANGED evars
    /\ UNCHANGED rvars
    /\ UNCHANGED fvars
    /\ UNCHANGED lvars
    /\ UNCHANGED wvars
    /\ UNCHANGED avars
    /\ UNCHANGED nvars
    /\ UNCHANGED cvars
    /\ UNCHANGED kvars
    /\ UNCHANGED svars

\* transform.run returns or raises and _execute_transform runs to its end
TransformFinish ==
    /\ pc = "idle"
    /\ t_pc = "awaiting"
    /\ \E outcome \in Outcomes :
          LET source_id == IF t_scene THEN nodes[t_source].node.id ELSE t_source
              source_pos == IF t_scene THEN nodes[t_source].pos ELSE DocPos
          IN  Commit(execute_transform(GState, source_id, source_pos, t_scene, outcome),
                     "transform")
    /\ t_pc' = "idle"
    /\ UNCHANGED <<map_manager, pc, t_source, t_scene>>
    /\ UNCHANGED evars
    /\ UNCHANGED rvars
    /\ UNCHANGED fvars
    /\ UNCHANGED lvars
    /\ UNCHANGED wvars
    /\ UNCHANGED avars
    /\ UNCHANGED nvars
    /\ UNCHANGED cvars
    /\ UNCHANGED kvars
    /\ UNCHANGED svars

\* remove_node while a transform may be awaited: scene.removeItem(node)
\* takes the NodeVisual out of the scene
RemoveNodeAwaited ==
    /\ pc = "idle"
    /\ \E node_id \in Ids :
          /\ Commit(remove_node(GState, node_id), "remove_node")
          /\ t_scene' = (t_scene /\ ~(node_id = t_source /\ node_id \in DOMAIN nodes))
    /\ UNCHANGED <<map_manager, pc, t_pc, t_source>>
    /\ UNCHANGED evars
    /\ UNCHANGED rvars
    /\ UNCHANGED fvars
    /\ UNCHANGED lvars
    /\ UNCHANGED wvars
    /\ UNCHANGED avars
    /\ UNCHANGED nvars
    /\ UNCHANGED cvars
    /\ UNCHANGED kvars
    /\ UNCHANGED svars

\* clear() while a transform may be awaited
ClearAwaited ==
    /\ pc = "idle"
    /\ Commit(clear(GState), "clear")
    /\ t_scene' = FALSE
    /\ UNCHANGED <<map_manager, pc, t_pc, t_source>>
    /\ UNCHANGED evars
    /\ UNCHANGED rvars
    /\ UNCHANGED fvars
    /\ UNCHANGED lvars
    /\ UNCHANGED wvars
    /\ UNCHANGED avars
    /\ UNCHANGED nvars
    /\ UNCHANGED cvars
    /\ UNCHANGED kvars
    /\ UNCHANGED svars

NextTransform ==
    \/ AddNode
    \/ AddEdge
    \/ TransformStart
    \/ TransformFinish
    \/ RemoveNodeAwaited
    \/ ClearAwaited

SpecTransform == Init /\ [][NextTransform]_vars


(***************************************************************************)
(* The runs of the transforms over their sub-steps.  A search engine is    *)
(* [down, items]: down when the request to it raises, items what each      *)
(* result does: "ok" gives an entity, "bad" raises while the result is     *)
(* read, "badurl" is read but has an address no entity can be made of.     *)
(* A run gives [kind, entities, derived]: "return" with the list           *)
(* returned or "raise", and derived, every entity that was appended to     *)
(* the list of the run while it ran.                                       *)
(***************************************************************************)
MaxItems == 2

ItemKinds == {"ok", "bad", "badurl"}
Engines == [down : BOOLEAN, items : SeqsUpTo(ItemKinds, MaxItems)]
SearchInputs == [bing : Engines, google : Engines]

derived_entity(source, i) == [source |-> source, item |-> i]

\* a loop that an exception leaves: what was appended up to the first item
\* of a kind in stop
RECURSIVE items_until(_, _, _, _)
items_until(source, items, stop, i) ==
    IF i > Len(items) \/ items[i] \in stop THEN <<>>
    ELSE <<derived_entity(source, i)>> \o items_until(source, items, stop, i + 1)

\* a loop whose body is a try that continues: the items of a kind in skip
\* are passed over
RECURSIVE items_skipping(_, _, _, _)
items_skipping(source, items, skip, i) ==
    IF i > Len(items) THEN <<>>
    ELSE (IF items[i] \in skip THEN <<>> ELSE <<derived_entity(source, i)>>)
         \o items_skipping(source, items, skip, i + 1)

Raises(items, stop) == \E i \in DOMAIN items : items[i] \in stop

\* username_search.py, _search_bing and _search_google: the whole body is
\* one try, the results appended before the exception are returned; a
\* result is [source, item, url]
RECURSIVE search_results(_, _, _)
search_results(source, items, i) ==
    IF i > Len(items) \/ items[i] = "bad" THEN <<>>
    ELSE <<[source |-> source, item |-> i, url |-> items[i]]>>
         \o search_results(source, items, i + 1)

search_engine(source, engine) ==
    IF engine.down THEN <<>> ELSE search_results(source, engine.items, 1)

\* username_search.py, _run_sync: _create_entity in a try that continues
UsernameSearch_run_sync(input) ==
    LET results == search_engine("Bing", input.bing)
                   \o search_engine("Google", input.google)
        made == SelectSeq(results, LAMBDA r : r.url = "ok")
        entities == [i \in DOMAIN made |-> derived_entity(made[i].source, made[i].item)]
    IN  [kind |-> "return", entities |-> entities, derived |-> entities]

\* username_to_website.py, _run_sync: the Bing request and loop are
\* outside any try, the Google search is inside one and each of its
\* addresses inside another
UsernameToWebsite_run_sync(input) ==
    LET stop == {"bad", "badurl"}
        bing == IF input.bing.down THEN <<>>
                ELSE items_until("Bing", input.bing.items, stop, 1)
        google == IF input.google.down THEN <<>>
                  ELSE items_skipping("Google", input.google.items, stop, 1)
    IN  IF input.bing.down \/ Raises(input.bing.items, stop)
        THEN [kind |-> "raise", entities |-> <<>>, derived |-> bing]
        ELSE [kind |-> "return", entities |-> bing \o google,
              derived |-> bing \o google]

\* What a Google account gives to EmailLookup: photos, the profile and
\* cover photos that are not the default; playgames, what
\* playgames.search_player does; maps, the reviews and photos with a
\* position ("bad": one without a date); calendar, the calendar items
\* ("bad": one whose dates cannot be read).
SourceItemKinds == {"ok", "bad"}
EmailInputs ==
    [photos : 0..MaxItems,
     playgames : {"none", "player", "raise"},
     maps : SeqsUpTo(SourceItemKinds, MaxItems),
     calendar : SeqsUpTo(SourceItemKinds, MaxItems)]

\* email_lookup.py, _process_ghunt_results
EmailLookup_process_ghunt_results(input) ==
    LET photos == [i \in 1..input.photos |-> derived_entity("photos", i)]
        player == IF input.playgames = "player"
                  THEN <<derived_entity("playgames", 1)>> ELSE <<>>
        maps == items_until("maps", input.maps, {"bad"}, 1)
        calendar == items_skipping("calendar", input.calendar, {"bad"}, 1)
    IN  IF input.playgames = "raise"
        THEN [kind |-> "raise", entities |-> <<>>, derived |-> photos]
        ELSE IF Raises(input.maps, {"bad"})
        THEN [kind |-> "raise", entities |-> <<>>,
              derived |-> photos \o player \o maps]
        ELSE [kind |-> "return",
              entities |-> photos \o player \o maps \o calendar,
              derived |-> photos \o player \o maps \o calendar]

\* email_lookup.py, run, once the account is found: "except Exception"
\* around the whole lookup returns []
EmailLookup_run(input) ==
    LET r == EmailLookup_process_ghunt_results(input)
    IN  IF r.kind = "raise" THEN [r EXCEPT !.kind = "return", !.entities = <<>>]
        ELSE r

RunUsernameSearch ==
    /\ \E input \in SearchInputs :
          /\ r_input' = input
          /\ r_result' = UsernameSearch_run_sync(input)
    /\ r_name' = "UsernameSearch"
    /\ UNCHANGED gvars
    /\ UNCHANGED evars
    /\ UNCHANGED tvars
    /\ UNCHANGED fvars
    /\ UNCHANGED lvars
    /\ UNCHANGED wvars
    /\ UNCHANGED avars
    /\ UNCHANGED nvars
    /\ UNCHANGED cvars
    /\ UNCHANGED kvars
    /\ UNCHANGED svars

RunUsernameToWebsite ==
    /\ \E input \in SearchInputs :
          /\ r_input' = input
          /\ r_result' = UsernameToWebsite_run_sync(input)
    /\ r_name' = "UsernameToWebsite"
    /\ UNCHANGED gvars
    /\ UNCHANGED evars
    /\ UNCHANGED tvars
    /\ UNCHANGED fvars
    /\ UNCHANGED lvars
    /\ UNCHANGED wvars
    /\ UNCHANGED avars
    /\ UNCHANGED nvars
    /\ UNCHANGED cvars
    /\ UNCHANGED kvars
    /\ UNCHANGED svars

RunEmailLookup ==
    /\ \E input \in EmailInputs :
          /\ r_input' = input
          /\ r_result' = EmailLookup_run(input)
    /\ r_name' = "EmailLookup"
    /\ UNCHANGED gvars
    /\ UNCHANGED evars
    /\ UNCHANGED tvars
    /\ UNCHANGED fvars
    /\ UNCHANGED lvars
    /\ UNCHANGED wvars
    /\ UNCHANGED avars
    /\ UNCHANGED nvars
    /\ UNCHANGED cvars
    /\ UNCHANGED kvars
    /\ UNCHANGED svars

NextRun ==
    \/ RunUsernameSearch
    \/ RunUsernameToWebsite
    \/ RunEmailLookup

SpecRun == Init /\ [][NextRun]_vars


(***************************************************************************)
(* The investigation file (pano.py).  save_investigation writes a node     *)
(* entry [id, entity_type, properties, pos] for every node and an edge     *)
(* entry for every edge; load_investigation clears the graph and the       *)
(* timeline and adds the nodes and edges of the file.  The dates of the    *)
(* Events in the graph are datetimes (property editor), date texts that    *)
(* fromisoformat reads, or date texts that it does not read (an AI answer, *)
(* a transform).                                                           *)
(***************************************************************************)
NoFile == [nodes |-> <<>>, edges |-> <<>>, written |-> FALSE]

FileEventVariants(id) ==
    {Event(id, DT(StartOf(id)), DT(MaxTime), TRUE),
     Event(id, DT(StartOf(id)), DT(MaxTime), FALSE),
     Event(id, Str("iso_space", StartOf(id)), Str("iso_space", MaxTime), TRUE),
     Event(id, Malformed, Malformed, TRUE)}

FileEntitiesOf(id) ==
    IF TypeOf(id) = "Event" THEN FileEventVariants(id) ELSE EntitiesOf(id)

\* node_data of save_investigation, as json.dumps writes it
save_node_data(g, node_id) ==
    [id |-> node_id,
     entity_type |-> g.nodes[node_id].node.type,
     properties |-> json_dumps(to_dict_of(g.nodes[node_id].node)),
     pos |-> [x |-> g.nodes[node_id].pos.x, y |-> g.nodes[node_id].pos.y]]

\* edge_data of save_investigation
save_edge_data(g, eid) ==
    [id |-> eid,
     source |-> RefId(g.nodes, g.edges[eid].source),
     target |-> RefId(g.nodes, g.edges[eid].target),
     relationship |-> g.edges[eid].relationship,
     style |-> g.edges[eid].style]

\* investigation_data, for one iteration order of the two dictionaries
save_investigation(g, node_order, edge_order) ==
    [nodes |-> [i \in DOMAIN node_order |-> save_node_data(g, node_order[i])],
     edges |-> [i \in DOMAIN edge_order |-> save_edge_data(g, edge_order[i])],
     written |-> TRUE]

\* "for node_data in investigation_data['nodes']": the identifier of the
\* entry is put into the properties, the class named by entity_type
\* builds the entity, add_node; an exception leaves the loop
RECURSIVE load_nodes(_, _, _)
load_nodes(g, entries, i) ==
    IF i > Len(entries) THEN g
    ELSE LET properties == [entries[i].properties EXCEPT !.id = entries[i].id]
             entity == IF entries[i].entity_type = "Event"
                       THEN Event_from_dict(properties)
                       ELSE Entity_base_from_dict(properties)
             pos == [x |-> entries[i].pos.x, y |-> entries[i].pos.y]
         IN  IF entity = Raised
             THEN [g EXCEPT !.ret = <<"raise">>]
             ELSE load_nodes(add_node(g, entity, pos), entries, i + 1)

\* load_investigation: clear(), timeline_visual.events.clear(), the nodes,
\* the edges; "except Exception" reports the error and returns
load_investigation(g, data) ==
    LET g0 == [clear(g) EXCEPT !.timeline = <<>>, !.ret = <<"ok">>]
        g1 == load_nodes(g0, data.nodes, 1)
    IN  IF g1.ret = <<"raise">>
        THEN [g1 EXCEPT !.ret = <<"None", "Load Error">>]
        ELSE [restore_edges(g1, data.edges, 1) EXCEPT !.ret = <<"None", "loaded">>]

AddNodeFile ==
    /\ pc = "idle"
    /\ \E id \in Ids :
       \E entity \in FileEntitiesOf(id), pos \in Positions :
          Commit(add_node(GState, entity, pos), "add_node")
    /\ UNCHANGED <<map_manager, pc>>
    /\ UNCHANGED evars
    /\ UNCHANGED tvars
    /\ UNCHANGED rvars
    /\ UNCHANGED fvars
    /\ UNCHANGED lvars
    /\ UNCHANGED wvars
    /\ UNCHANGED avars
    /\ UNCHANGED nvars
    /\ UNCHANGED cvars
    /\ UNCHANGED kvars
    /\ UNCHANGED svars

SaveInvestigation ==
    /\ pc = "idle"
    /\ \E node_order \in Orderings(DOMAIN nodes), edge_order \in Orderings(DOMAIN edges) :
          f_file' = save_investigation(GState, node_order, edge_order)
    /\ f_nodes' = nodes
    /\ f_timeline' = timeline
    /\ lastOp' = [op |-> "save_investigation", ret |-> <<"None">>, notes |-> <<>>]
    /\ UNCHANGED <<nodes, edges, map_manager, map_locations, timeline, pc>>
    /\ UNCHANGED evars
    /\ UNCHANGED tvars
    /\ UNCHANGED rvars
    /\ UNCHANGED lvars
    /\ UNCHANGED wvars
    /\ UNCHANGED avars
    /\ UNCHANGED nvars
    /\ UNCHANGED cvars
    /\ UNCHANGED kvars
    /\ UNCHANGED svars

LoadInvestigation ==
    /\ pc = "idle"
    /\ f_file.written
    /\ Commit(load_investigation(GState, f_file), "load_investigation")
    /\ UNCHANGED <<map_manager, pc>>
    /\ UNCHANGED evars
    /\ UNCHANGED tvars
    /\ UNCHANGED rvars
    /\ UNCHANGED fvars
    /\ UNCHANGED lvars
    /\ UNCHANGED wvars
    /\ UNCHANGED avars
    /\ UNCHANGED nvars
    /\ UNCHANGED cvars
    /\ UNCHANGED kvars
    /\ UNCHANGED svars

NextFile ==
    \/ AddNodeFile
    \/ AddEdge
    \/ RemoveNode
    \/ SaveInvestigation
    \/ LoadInvestigation

SpecFile == Init /\ [][NextFile]_vars


(***************************************************************************)
(* Labels.  An entity carries properties and a label that update_label     *)
(* derives from them (Event: format_label(["name"])).  The properties      *)
(* modelled are name and notes; a dictionary of new properties may lack    *)
(* either key.                                                             *)
(***************************************************************************)
MaxNames == 3
MaxNotes == 2
Absent == 0

Names == 1..MaxNames
NotesValues == 1..MaxNotes
Props == [name : Names, notes : NotesValues]
NewProps == [name : Names \cup {Absent}, notes : NotesValues \cup {Absent}]
Labels == {[text |-> n] : n \in Names}
LabelledEntities == [props : Props, label : Labels]

\* Entity.format_label(["name"])
format_label(props) == [text |-> props.name]

\* entity.update_label()
update_label(e) == [e EXCEPT !.label = format_label(e.props)]

\* dict.update(new_properties) / "for key, value in ...: properties[key] = value"
properties_update(e, new) ==
    [e EXCEPT !.props = [name |-> IF new.name = Absent THEN @.name ELSE new.name,
                         notes |-> IF new.notes = Absent THEN @.notes ELSE new.notes]]

\* a path gives the entity it leaves and the labels it handed on
Handed(e, n) == [entity |-> e, seen |-> [i \in 1..n |-> e.label]]

\* _edit_properties with update_label called before the properties are written
NodeVisual_edit_properties_label_first(e, new) ==
    LET e1 == update_label(e)
        e2 == properties_update(e1, new)
    IN  Handed(e2, 2)

\* NodeVisual._edit_properties: the properties of the dialog are written,
\* update_label, _update_layout, graph_manager.update_node
NodeVisual_edit_properties(e, new) ==
    LET e1 == properties_update(e, new)
        e2 == update_label(e1)
    IN  Handed(e2, 2)

\* AIDock._update_entities, one update that finds its node:
\* properties.update, update_label, _update_node_visuals
AIDock_update_entity(e, new) ==
    LET e1 == properties_update(e, new)
        e2 == update_label(e1)
    IN  Handed(e2, 1)

\* AIDock._create_entities, an entry that matches an existing node: the
\* properties of the temporary entity are written into it, update_label,
\* _update_node_visuals
AIDock_create_matched(e, new) ==
    LET e1 == properties_update(e, new)
        e2 == update_label(e1)
    IN  Handed(e2, 1)

\* load_investigation, one node entry: from_dict builds the entity with
\* whatever label it gives it, update_label, add_node
load_entity(props, label) ==
    LET e1 == [props |-> props, label |-> label]
        e2 == update_label(e1)
    IN  Handed(e2, 1)

TakePath(path, r) ==
    /\ l_before' = l_entity
    /\ l_entity' = r.entity
    /\ l_seen' = r.seen
    /\ l_path' = path

LabelEditProperties ==
    /\ \E new \in [name : Names, notes : NotesValues] :
          TakePath("edit_properties", NodeVisual_edit_properties(l_entity, new))
    /\ UNCHANGED gvars
    /\ UNCHANGED evars
    /\ UNCHANGED tvars
    /\ UNCHANGED rvars
    /\ UNCHANGED fvars
    /\ UNCHANGED wvars
    /\ UNCHANGED avars
    /\ UNCHANGED nvars
    /\ UNCHANGED cvars
    /\ UNCHANGED kvars
    /\ UNCHANGED svars

LabelAIUpdate ==
    /\ \E new \in NewProps :
          TakePath("ai_update", AIDock_update_entity(l_entity, new))
    /\ UNCHANGED gvars
    /\ UNCHANGED evars
    /\ UNCHANGED tvars
    /\ UNCHANGED rvars
    /\ UNCHANGED fvars
    /\ UNCHANGED wvars
    /\ UNCHANGED avars
    /\ UNCHANGED nvars
    /\ UNCHANGED cvars
    /\ UNCHANGED kvars
    /\ UNCHANGED svars

LabelAICreateMatched ==
    /\ \E new \in NewProps :
          TakePath("ai_create", AIDock_create_matched(l_entity, new))
    /\ UNCHANGED gvars
    /\ UNCHANGED evars
    /\ UNCHANGED tvars
    /\ UNCHANGED rvars
    /\ UNCHANGED fvars
    /\ UNCHANGED wvars
    /\ UNCHANGED avars
    /\ UNCHANGED nvars
    /\ UNCHANGED cvars
    /\ UNCHANGED kvars
    /\ UNCHANGED svars

LabelFileLoad ==
    /\ \E props \in Props, label \in Labels :
          TakePath("load", load_entity(props, label))
    /\ UNCHANGED gvars
    /\ UNCHANGED evars
    /\ UNCHANGED tvars
    /\ UNCHANGED rvars
    /\ UNCHANGED fvars
    /\ UNCHANGED wvars
    /\ UNCHANGED avars
    /\ UNCHANGED nvars
    /\ UNCHANGED cvars
    /\ UNCHANGED kvars
    /\ UNCHANGED svars

NextLabel ==
    \/ LabelEditProperties
    \/ LabelAIUpdate
    \/ LabelAICreateMatched
    \/ LabelFileLoad

SpecLabel == Init /\ [][NextLabel]_vars


(***************************************************************************)
(* TimelineVisual (ui/components/timeline_visual.py).  The start and end   *)
(* times are datetimes, written as instants.                               *)
(***************************************************************************)
MaxEvents == 3

EventIds == 1..MaxEvents
WidgetEvents ==
    {[id |-> i, start_time |-> s, end_time |-> e] :
        i \in EventIds, s \in Times, e \in Times}
SpanEvents == {ev \in WidgetEvents : ev.start_time <= ev.end_time}

\* list.sort(key=lambda x: x[key]): a stable sort
RECURSIVE insert_by(_, _, _)
insert_by(sorted, ev, key) ==
    IF sorted = <<>> THEN <<ev>>
    ELSE IF sorted[Len(sorted)][key] <= ev[key]
         THEN Append(sorted, ev)
         ELSE Append(insert_by(SubSeq(sorted, 1, Len(sorted) - 1), ev, key),
                     sorted[Len(sorted)])

RECURSIVE sort_by(_, _)
sort_by(events, key) ==
    IF events = <<>> THEN <<>>
    ELSE insert_by(sort_by(SubSeq(events, 1, Len(events) - 1), key),
                   events[Len(events)], key)

events_overlap(event1, event2) ==
    event1.start_time <= event2.end_time /\ event1.end_time >= event2.start_time

is_contained_within(event1, event2) ==
    event2.start_time <= event1.start_time /\ event1.end_time <= event2.end_time

timespan(ev) == ev.end_time - ev.start_time

\* find_container_for_event: the index of the first container of the
\* smallest timespan, 0 for None
find_container_for_event(event, potential_containers) ==
    LET holds(i) == is_contained_within(event, potential_containers[i])
        C == {i \in DOMAIN potential_containers : holds(i)}
    IN  IF C = {} THEN 0
        ELSE CHOOSE i \in C :
                \A j \in C :
                    \/ timespan(potential_containers[i]) < timespan(potential_containers[j])
                    \/ /\ timespan(potential_containers[i]) = timespan(potential_containers[j])
                       /\ i <= j

\* "if k not in contained_by: contained_by[k] = []; contained_by[k].append(x)"
nest(contained_by, k, x) ==
    Put(contained_by, k,
        IF k \in DOMAIN contained_by THEN Append(contained_by[k], x) ELSE <<x>>)

\* list.remove(x): the first occurrence goes
list_remove(q, x) ==
    IF \E i \in DOMAIN q : q[i] = x
    THEN LET i == CHOOSE i \in DOMAIN q : q[i] = x /\ \A j \in 1..(i - 1) : q[j] # x
         IN  SubSeq(q, 1, i - 1) \o SubSeq(q, i + 1, Len(q))
    ELSE q

\* "for existing_event in group['events']": an event that the new event
\* contains is taken out of every list and put under the new event
RECURSIVE rehome(_, _, _, _)
rehome(contained_by, existing, event, j) ==
    IF j > Len(existing) THEN contained_by
    ELSE IF existing[j].id # event.id /\ is_contained_within(existing[j], event)
         THEN rehome(nest([k \in DOMAIN contained_by |->
                              list_remove(contained_by[k], existing[j].id)],
                          event.id, existing[j].id),
                     existing, event, j + 1)
         ELSE rehome(contained_by, existing, event, j + 1)

MinOf(S) == CHOOSE x \in S : \A y \in S : x <= y
MaxOf(S) == CHOOSE x \in S : \A y \in S : x >= y

\* the body of "if any(events_overlap(event, e) for e in group['events'])"
add_to_group(group, event) ==
    LET container == find_container_for_event(event, group.events)
        contained_by ==
            IF container = 0 THEN group.contained_by
            ELSE rehome(nest(group.contained_by, group.events[container].id, event.id),
                        group.events, event, 1)
        evs == Append(group.events, event)
    IN  [events |-> evs,
         contained_by |-> contained_by,
         start_time |-> MinOf({evs[i].start_time : i \in DOMAIN evs}),
         end_time |-> MaxOf({evs[i].end_time : i \in DOMAIN evs})]

new_group(event) ==
    [events |-> <<event>>, contained_by |-> Restrict(<<>>, {}),
     start_time |-> event.start_time, end_time |-> event.end_time]

\* "for group in self.event_groups": the first group with an overlapping
\* event takes the event, otherwise a new group is appended
RECURSIVE place_event(_, _, _)
place_event(groups, event, gi) ==
    IF gi > Len(groups) THEN Append(groups, new_group(event))
    ELSE IF \E i \in DOMAIN groups[gi].events : events_overlap(event, groups[gi].events[i])
         THEN [groups EXCEPT ![gi] = add_to_group(@, event)]
         ELSE place_event(groups, event, gi + 1)

RECURSIVE place_events(_, _, _)
place_events(groups, sorted_events, i) ==
    IF i > Len(sorted_events) THEN groups
    ELSE place_events(place_event(groups, sorted_events[i], 1), sorted_events, i + 1)

\* the group as the widget holds it: its events by identity
by_identity(group) ==
    [group EXCEPT !.events = [i \in DOMAIN group.events |-> group.events[i].id]]

\* TimelineVisual._detect_overlaps: the new value of self.event_groups
detect_overlaps(events) ==
    IF events = <<>> THEN <<>>
    ELSE LET sorted_events == sort_by(events, "start_time")
             groups == place_events(<<new_group(sorted_events[1])>>, sorted_events, 2)
             ordered == sort_by(groups, "start_time")
         IN  [i \in DOMAIN ordered |-> by_identity(ordered[i])]

\* TimelineVisual.add_event
TimelineVisual_add_event(events, event) ==
    LET evs == sort_by(Append(events, event), "start_time")
    IN  [events |-> evs, groups |-> detect_overlaps(evs)]

\* TimelineVisual.delete_event
TimelineVisual_delete_event(events, groups, event_id) ==
    IF \E i \in DOMAIN events : events[i].id = event_id
    THEN LET evs == SelectSeq(events, LAMBDA e : e.id # event_id)
         IN  [events |-> evs, groups |-> detect_overlaps(evs)]
    ELSE [events |-> events, groups |-> groups]

\* TimelineVisual.show_edit_dialog, the dialog accepted: the event gets
\* the times of the dialog, is popped and appended, and the list is sorted
\* by end_time; self.event_groups is left as it is
show_edit_dialog_accepted(events, groups, event_id, start_time, end_time) ==
    LET event_index == CHOOSE i \in DOMAIN events : events[i].id = event_id
        event == [events[event_index] EXCEPT !.start_time = start_time,
                                             !.end_time = end_time]
        popped == SubSeq(events, 1, event_index - 1)
                  \o SubSeq(events, event_index + 1, Len(events))
    IN  [events |-> sort_by(Append(popped, event), "end_time"), groups |-> groups]

WidgetIds == {w_events[i].id : i \in DOMAIN w_events}

TimelineAddEvent ==
    /\ \E event \in SpanEvents :
          /\ event.id \notin WidgetIds
          /\ LET r == TimelineVisual_add_event(w_events, event)
             IN  w_events' = r.events /\ w_groups' = r.groups
    /\ w_op' = "add_event"
    /\ UNCHANGED gvars
    /\ UNCHANGED evars
    /\ UNCHANGED tvars
    /\ UNCHANGED rvars
    /\ UNCHANGED fvars
    /\ UNCHANGED lvars
    /\ UNCHANGED avars
    /\ UNCHANGED nvars
    /\ UNCHANGED cvars
    /\ UNCHANGED kvars
    /\ UNCHANGED svars

TimelineDeleteEvent ==
    /\ \E event_id \in EventIds :
          LET r == TimelineVisual_delete_event(w_events, w_groups, event_id)
          IN  w_events' = r.events /\ w_groups' = r.groups
    /\ w_op' = "delete_event"
    /\ UNCHANGED gvars
    /\ UNCHANGED evars
    /\ UNCHANGED tvars
    /\ UNCHANGED rvars
    /\ UNCHANGED fvars
    /\ UNCHANGED lvars
    /\ UNCHANGED avars
    /\ UNCHANGED nvars
    /\ UNCHANGED cvars
    /\ UNCHANGED kvars
    /\ UNCHANGED svars

TimelineEditAccepted ==
    /\ \E event_id \in WidgetIds :
       \E start_time \in Times, end_time \in Times :
          /\ start_time <= end_time
          /\ LET r == show_edit_dialog_accepted(w_events, w_groups, event_id,
                                                start_time, end_time)
             IN  w_events' = r.events /\ w_groups' = r.groups
    /\ w_op' = "show_edit_dialog"
    /\ UNCHANGED gvars
    /\ UNCHANGED evars
    /\ UNCHANGED tvars
    /\ UNCHANGED rvars
    /\ UNCHANGED fvars
    /\ UNCHANGED lvars
    /\ UNCHANGED avars
    /\ UNCHANGED nvars
    /\ UNCHANGED cvars
    /\ UNCHANGED kvars
    /\ UNCHANGED svars

NextTimeline ==
    \/ TimelineAddEvent
    \/ TimelineDeleteEvent
    \/ TimelineEditAccepted

SpecTimeline == Init /\ [][NextTimeline]_vars


(***************************************************************************)
(* AIDock._create_entities.  An entry of the entities array is [kind,      *)
(* node]: "ok" with the id of the node that is created or matched for it,  *)
(* "unknown type" or "error" (the entry is passed over) with node 0.  A    *)
(* connection is [from, to], two indices into the entities array,          *)
(* counted from 0.                                                         *)
(***************************************************************************)
MaxEntries == 3
MaxConnections == 2
NoNode == 0

AIEntries ==
    {[kind |-> "ok", node |-> id] : id \in Ids}
      \cup {[kind |-> k, node |-> NoNode] : k \in {"unknown type", "error"}}
AIConnections == [from : 0..(MaxEntries - 1), to : 0..(MaxEntries - 1)]
AICreateOperations ==
    [entities : SeqsUpTo(AIEntries, MaxEntries),
     connections : SeqsUpTo(AIConnections, MaxConnections)]

\* "for i, entity_data in enumerate(data['entities'])": the nodes list gets
\* the node of every entry that is not passed over
RECURSIVE created_nodes(_, _)
created_nodes(entities, i) ==
    IF i > Len(entities) THEN <<>>
    ELSE (IF entities[i].kind = "ok" THEN <<entities[i].node>> ELSE <<>>)
         \o created_nodes(entities, i + 1)

\* "for conn in data.get('connections', [])": both indices are looked up
\* in the nodes list; an edge between a node and itself and a pair seen
\* before are passed over
RECURSIVE created_edges(_, _, _, _)
created_edges(nodes_list, connections, edge_pairs, c) ==
    IF c > Len(connections) THEN <<>>
    ELSE LET conn == connections[c]
         IN  IF conn.from < Len(nodes_list) /\ conn.to < Len(nodes_list)
             THEN LET source == nodes_list[conn.from + 1]
                      target == nodes_list[conn.to + 1]
                      edge_pair == <<source, target>>
                  IN  IF source = target \/ edge_pair \in edge_pairs
                      THEN created_edges(nodes_list, connections, edge_pairs, c + 1)
                      ELSE <<edge_pair>>
                           \o created_edges(nodes_list, connections,
                                            edge_pairs \cup {edge_pair}, c + 1)
             ELSE created_edges(nodes_list, connections, edge_pairs, c + 1)

AIDock_create_entities(data) ==
    LET nodes_list == created_nodes(data.entities, 1)
    IN  [nodes |-> nodes_list,
         edges |-> created_edges(nodes_list, data.connections, {}, 1)]

\* one create operation of one answer
AICreate ==
    /\ a_op = "none"
    /\ \E data \in AICreateOperations :
          /\ a_data' = data
          /\ LET r == AIDock_create_entities(data)
             IN  a_nodes' = r.nodes /\ a_edges' = r.edges
    /\ a_op' = "create"
    /\ UNCHANGED gvars
    /\ UNCHANGED evars
    /\ UNCHANGED tvars
    /\ UNCHANGED rvars
    /\ UNCHANGED fvars
    /\ UNCHANGED lvars
    /\ UNCHANGED wvars
    /\ UNCHANGED nvars
    /\ UNCHANGED cvars
    /\ UNCHANGED kvars
    /\ UNCHANGED svars

NextAI ==
    \/ AICreate

SpecAI == Init /\ [][NextAI]_vars


(***************************************************************************)
(* NodeList.refresh_nodes (src/ui/components/node_list.py).  The coroutine *)
(* walks graph_manager.nodes.items() and is suspended inside the loop body *)
(* at its awaits; the dictionary iterator raises RuntimeError when the     *)
(* dictionary changed while it was walked, and refresh_nodes swallows it.  *)
(***************************************************************************)
MaxSlots == 4
Deleted == 0

\* the keys of graph_manager.nodes
dict_keys(d) == {d[i] : i \in 1..Len(d)} \ {Deleted}

\* iter(d.items()): the position, the number of items still owed and the size
\* of the dictionary when the walk began
dict_iter(d) == [pos |-> 1, len |-> Cardinality(dict_keys(d)), used |-> Cardinality(dict_keys(d))]

\* next(it) on the dictionary d: RuntimeError when the size differs from the
\* size at the start or when more items turn up than were owed, StopIteration
\* at the end of the slots, else the key of the next live slot
dict_next(d, it) ==
    LET live == {i \in it.pos..Len(d) : d[i] # Deleted}
    IN  IF it.used # Cardinality(dict_keys(d)) THEN [kind |-> "RuntimeError", key |-> Deleted, pos |-> it.pos]
        ELSE IF live = {} THEN [kind |-> "StopIteration", key |-> Deleted, pos |-> it.pos]
        ELSE IF it.len = 0 THEN [kind |-> "RuntimeError", key |-> Deleted, pos |-> it.pos]
        ELSE LET i == CHOOSE k \in live : \A j \in live : k <= j
             IN  [kind |-> "item", key |-> d[i], pos |-> i + 1]

\* one run of refresh_nodes from the loop header to the next await or to the
\* end: the task's record, the keys of _node_items and how the run ended
refresh_step(d, items, task) ==
    LET n == dict_next(d, task)
    IN  IF n.kind = "item"
        THEN [task  |-> [pc |-> "awaiting", pos |-> n.pos, len |-> task.len - 1,
                         used |-> task.used,
                         current_nodes |-> task.current_nodes \cup {n.key}],
              items |-> items \cup {n.key},
              op    |-> "suspended"]
        ELSE IF n.kind = "StopIteration"
        THEN [task  |-> [IdleRefresh EXCEPT !.pc = "done"],
              items |-> items \cap task.current_nodes,
              op    |-> "completed"]
        ELSE [task  |-> [IdleRefresh EXCEPT !.pc = "done"],
              items |-> items,
              op    |-> "completed"]

\* refresh_nodes is called: the iterator is made and the first run begins
RefreshStart(t) ==
    /\ n_tasks[t].pc \in {"idle", "done"}
    /\ LET it == dict_iter(n_dict)
           r  == refresh_step(n_dict, n_items,
                              [pc |-> "awaiting", pos |-> it.pos, len |-> it.len,
                               used |-> it.used, current_nodes |-> {}])
       IN  /\ n_tasks' = [n_tasks EXCEPT ![t] = r.task]
           /\ n_items' = r.items
           /\ n_op' = r.op
    /\ UNCHANGED n_dict
    /\ UNCHANGED gvars
    /\ UNCHANGED evars
    /\ UNCHANGED tvars
    /\ UNCHANGED rvars
    /\ UNCHANGED fvars
    /\ UNCHANGED lvars
    /\ UNCHANGED wvars
    /\ UNCHANGED avars
    /\ UNCHANGED cvars
    /\ UNCHANGED kvars
    /\ UNCHANGED svars

\* the event loop resumes a refresh_nodes that was suspended in the loop body
RefreshResume(t) ==
    /\ n_tasks[t].pc = "awaiting"
    /\ LET r == refresh_step(n_dict, n_items, n_tasks[t])
       IN  /\ n_tasks' = [n_tasks EXCEPT ![t] = r.task]
           /\ n_items' = r.items
           /\ n_op' = r.op
    /\ UNCHANGED n_dict
    /\ UNCHANGED gvars
    /\ UNCHANGED evars
    /\ UNCHANGED tvars
    /\ UNCHANGED rvars
    /\ UNCHANGED fvars
    /\ UNCHANGED lvars
    /\ UNCHANGED wvars
    /\ UNCHANGED avars
    /\ UNCHANGED cvars
    /\ UNCHANGED kvars
    /\ UNCHANGED svars

\* a node is added to the graph: self.nodes[entity.id] = node
ListGraphAdd(id) ==
    /\ id \notin dict_keys(n_dict)
    /\ Len(n_dict) < MaxSlots
    /\ n_dict' = Append(n_dict, id)
    /\ n_op' = "add_node"
    /\ UNCHANGED <<n_items, n_tasks>>
    /\ UNCHANGED gvars
    /\ UNCHANGED evars
    /\ UNCHANGED tvars
    /\ UNCHANGED rvars
    /\ UNCHANGED fvars
    /\ UNCHANGED lvars
    /\ UNCHANGED wvars
    /\ UNCHANGED avars
    /\ UNCHANGED cvars
    /\ UNCHANGED kvars
    /\ UNCHANGED svars

\* a node is removed from the graph: self.nodes.pop(node_id)
ListGraphRemove(id) ==
    /\ id \in dict_keys(n_dict)
    /\ n_dict' = [i \in 1..Len(n_dict) |-> IF n_dict[i] = id THEN Deleted ELSE n_dict[i]]
    /\ n_op' = "remove_node"
    /\ UNCHANGED <<n_items, n_tasks>>
    /\ UNCHANGED gvars
    /\ UNCHANGED evars
    /\ UNCHANGED tvars
    /\ UNCHANGED rvars
    /\ UNCHANGED fvars
    /\ UNCHANGED lvars
    /\ UNCHANGED wvars
    /\ UNCHANGED avars
    /\ UNCHANGED cvars
    /\ UNCHANGED kvars
    /\ UNCHANGED svars

NextList ==
    \/ \E t \in RefreshTasks : RefreshStart(t)
    \/ \E t \in RefreshTasks : RefreshResume(t)
    \/ \E id \in Ids : ListGraphAdd(id)
    \/ \E id \in Ids : ListGraphRemove(id)

SpecList == Init /\ [][NextList]_vars

(***************************************************************************)
(* Overlapping load_investigation calls (pano.py).  The coroutine is       *)
(* suspended once, at the read of the file; what follows the read, from    *)
(* clear() to the assignment of current_file, runs without an await.       *)
(***************************************************************************)
FilePos == CHOOSE p \in Positions : p.x = 0

\* a node entry and an edge entry as save_investigation writes them
stored_node(entity) ==
    [id |-> entity.id,
     entity_type |-> entity.type,
     properties |-> json_dumps(to_dict_of(entity)),
     pos |-> [x |-> FilePos.x, y |-> FilePos.y]]

stored_edge(source_id, target_id, relationship) ==
    [id |-> edge_id(source_id, target_id),
     source |-> source_id,
     target |-> target_id,
     relationship |-> relationship,
     style |-> SolidLine]

\* The files on disk, by name: an Event and a Location with an edge; the
\* Location alone; the Location and an Event whose dates are texts that are
\* not ISO dates, as save_investigation writes them for an Event made from an
\* AI answer.
InvestigationFiles ==
    << [nodes |-> <<stored_node(Event(1, DT(StartOf(1)), DT(MaxTime), TRUE)),
                    stored_node(Entity(2, TypeOf(2), None, None, TRUE))>>,
        edges |-> <<stored_edge(1, 2, "owns")>>,
        written |-> TRUE],
       [nodes |-> <<stored_node(Entity(2, TypeOf(2), None, None, TRUE))>>,
        edges |-> <<>>,
        written |-> TRUE],
       [nodes |-> <<stored_node(Entity(2, TypeOf(2), None, None, TRUE)),
                    stored_node(Event(1, Malformed, Malformed, TRUE))>>,
        edges |-> <<stored_edge(2, 1, "")>>,
        written |-> TRUE] >>

FileNames == DOMAIN InvestigationFiles

\* load_investigation up to "content = await f.read()": the dialog gives the
\* file name, the file is opened and the read is awaited
LoadStart(t) ==
    /\ pc = "idle"
    /\ c_tasks[t].pc = "idle"
    /\ \E file_name \in FileNames :
          c_tasks' = [c_tasks EXCEPT ![t] = [pc |-> "reading", file_name |-> file_name]]
    /\ c_overlap' = (c_overlap \/ \E u \in LoadTasks : c_tasks[u].pc = "reading")
    /\ UNCHANGED c_file
    /\ UNCHANGED gvars
    /\ UNCHANGED evars
    /\ UNCHANGED tvars
    /\ UNCHANGED rvars
    /\ UNCHANGED fvars
    /\ UNCHANGED lvars
    /\ UNCHANGED wvars
    /\ UNCHANGED avars
    /\ UNCHANGED nvars
    /\ UNCHANGED kvars
    /\ UNCHANGED svars

\* load_investigation after the read: clear, nodes, edges, current_file; an
\* exception leaves current_file as it was
LoadResume(t) ==
    /\ pc = "idle"
    /\ c_tasks[t].pc = "reading"
    /\ LET g == load_investigation(GState, InvestigationFiles[c_tasks[t].file_name])
       IN  /\ Commit(g, "load_investigation")
           /\ c_file' = IF g.ret = <<"None", "loaded">> THEN c_tasks[t].file_name ELSE c_file
    /\ c_tasks' = [c_tasks EXCEPT ![t].pc = "done"]
    /\ UNCHANGED c_overlap
    /\ UNCHANGED <<map_manager, pc>>
    /\ UNCHANGED evars
    /\ UNCHANGED tvars
    /\ UNCHANGED rvars
    /\ UNCHANGED fvars
    /\ UNCHANGED lvars
    /\ UNCHANGED wvars
    /\ UNCHANGED avars
    /\ UNCHANGED nvars
    /\ UNCHANGED kvars
    /\ UNCHANGED svars

NextLoad ==
    \/ AddNodeFile
    \/ AddEdge
    \/ \E t \in LoadTasks : LoadStart(t)
    \/ \E t \in LoadTasks : LoadResume(t)

SpecLoad == Init /\ [][NextLoad]_vars

(***************************************************************************)
(* The calendar items in EmailLookup._process_ghunt_results                *)
(* (src/transforms/email_lookup.py).  A start or an end of an item is      *)
(* missing, a date_time, a date whose text is YYYY-MM-DD, or a date whose   *)
(* text is something else.  start_dt and end_dt are locals of the method:  *)
(* they are unbound until the first strptime succeeds and are not reset    *)
(* between items.                                                          *)
(***************************************************************************)
MaxCalendar == 2
Unbound == [kind |-> "unbound", fmt |-> "", t |-> 0]

CalendarDates ==
    {[kind |-> "missing", t |-> 0]}
        \cup [kind : {"date_time", "date", "date_other"}, t : Times]
CalendarItems == [start : CalendarDates, end : CalendarDates]

\* start_date / end_date: "" when the item has none, strftime("%Y-%m-%d %H:%M")
\* of a date_time, f"{date} 00:00" or f"{date} 23:59" of a date
calendar_date_text(d) ==
    CASE d.kind = "missing" -> EmptyStr
      [] d.kind = "date_other" -> Str("other", d.t)
      [] OTHER -> Str("ymd_hm", d.t)

\* datetime.strptime(text, "%Y-%m-%d %H:%M")
strptime_ymd_hm(text) ==
    IF text.kind = "str" /\ text.fmt = "ymd_hm" THEN DT(text.t) ELSE Raised

\* "for event in target.calendar_events.items": the two strptime calls run
\* when both texts are non-empty and a ValueError is passed over; reading an
\* unbound start_dt or end_dt raises, and "except Exception" goes on to the
\* next item
RECURSIVE calendar_events(_, _, _, _, _)
calendar_events(items, i, start_dt, end_dt, entities) ==
    IF i > Len(items) THEN entities
    ELSE LET start_date == calendar_date_text(items[i].start)
             end_date == calendar_date_text(items[i].end)
             both == start_date # EmptyStr /\ end_date # EmptyStr
             s == strptime_ymd_hm(start_date)
             e == strptime_ymd_hm(end_date)
             start1 == IF both /\ s # Raised THEN s ELSE start_dt
             end1 == IF both /\ s # Raised /\ e # Raised THEN e ELSE end_dt
         IN  IF start1 = Unbound \/ end1 = Unbound
             THEN calendar_events(items, i + 1, start1, end1, entities)
             ELSE calendar_events(items, i + 1, start1, end1,
                                  Append(entities,
                                         [name |-> i, start_date |-> start1,
                                          end_date |-> end1, add_to_timeline |-> TRUE]))

process_calendar_events(items) == calendar_events(items, 1, Unbound, Unbound, <<>>)

\* one run over the calendar of one account
ProcessCalendar ==
    /\ k_op = "none"
    /\ \E items \in SeqsUpTo(CalendarItems, MaxCalendar) :
          /\ k_items' = items
          /\ k_events' = process_calendar_events(items)
    /\ k_op' = "processed"
    /\ UNCHANGED gvars
    /\ UNCHANGED evars
    /\ UNCHANGED tvars
    /\ UNCHANGED rvars
    /\ UNCHANGED fvars
    /\ UNCHANGED lvars
    /\ UNCHANGED wvars
    /\ UNCHANGED avars
    /\ UNCHANGED nvars
    /\ UNCHANGED cvars
    /\ UNCHANGED svars

NextCalendar ==
    \/ ProcessCalendar

SpecCalendar == Init /\ [][NextCalendar]_vars

(***************************************************************************)
(* Loading operations.  MapVisual.handle_search, show_route_connector,     *)
(* EmailLookup.run and the username search's _run_sync call                 *)
(* StatusManager.start_loading, keep the operation id it returns and call  *)
(* stop_loading with it.  A handler is suspended at each awaited network   *)
(* call (the username search blocks in its thread); the call returns or    *)
(* raises.  StatusManager is modelled by the ids it gave out and the ids   *)
(* that were stopped.                                                      *)
(***************************************************************************)
MaxRoutes == 2

\* every call starts at most one operation
OperationIds == 1..MaxCalls

\* status.start_loading(name): a new operation id, status.next before the call
start_loading(st) == [st EXCEPT !.started = @ \cup {st.next}, !.next = @ + 1]

\* status.stop_loading(operation_id)
stop_loading(st, operation_id) == [st EXCEPT !.stopped = @ \cup {operation_id}]

\* a handler that leaves without a finally clause
leave_without_finally(st, operation_id) == st

\* "finally: status.stop_loading(operation_id)" of the three coroutines
handle_search_finally(st, operation_id) == stop_loading(st, operation_id)

show_route_connector_finally(st, operation_id) == stop_loading(st, operation_id)

EmailLookup_run_finally(st, operation_id) == stop_loading(st, operation_id)

Running(c, handler, at, left, how) ==
    [s_calls EXCEPT ![c] = [handler |-> handler, pc |-> at,
                            operation_id |-> IF s_calls[c].pc = "idle" THEN s_status.next
                                             ELSE s_calls[c].operation_id,
                            left |-> left, how |-> how]]

Left(c, handler, how) ==
    [s_calls EXCEPT ![c] = [handler |-> handler, pc |-> "done",
                            operation_id |-> IF s_calls[c].pc = "idle" THEN s_status.next
                                             ELSE s_calls[c].operation_id,
                            left |-> 0, how |-> how]]

NotStarted(c, handler) ==
    [s_calls EXCEPT ![c] = [handler |-> handler, pc |-> "done",
                            operation_id |-> NoOperation, left |-> 0, how |-> "not_started"]]

\* handle_search up to its first await: an empty query returns before
\* start_loading; "lat, lon" in range awaits add_marker_and_center, out of
\* range returns inside the try; any other text awaits the geocoder
HandleSearchStart(c) ==
    /\ s_calls[c].pc = "idle"
    /\ \E query \in {"empty", "coordinates", "out_of_range", "text"} :
          CASE query = "empty" ->
                  /\ s_calls' = NotStarted(c, "handle_search")
                  /\ UNCHANGED s_status
            [] query = "coordinates" ->
                  /\ s_calls' = Running(c, "handle_search", "await_marker", 0, "coordinates")
                  /\ s_status' = start_loading(s_status)
            [] query = "out_of_range" ->
                  /\ s_calls' = Left(c, "handle_search", "early_return")
                  /\ s_status' = handle_search_finally(start_loading(s_status), s_status.next)
            [] OTHER ->
                  /\ s_calls' = Running(c, "handle_search", "await_geocode", 0, "text")
                  /\ s_status' = start_loading(s_status)
    /\ UNCHANGED gvars
    /\ UNCHANGED evars
    /\ UNCHANGED tvars
    /\ UNCHANGED rvars
    /\ UNCHANGED fvars
    /\ UNCHANGED lvars
    /\ UNCHANGED wvars
    /\ UNCHANGED avars
    /\ UNCHANGED nvars
    /\ UNCHANGED cvars
    /\ UNCHANGED kvars

\* "location = await LocationService.geocode(query)" returns a location,
\* returns None, or raises
HandleSearchGeocoded(c) ==
    /\ s_calls[c].handler = "handle_search"
    /\ s_calls[c].pc = "await_geocode"
    /\ \E outcome \in {"location", "none", "raise"} :
          CASE outcome = "location" ->
                  /\ s_calls' = Running(c, "handle_search", "await_marker", 0, "text")
                  /\ UNCHANGED s_status
            [] outcome = "none" ->
                  /\ s_calls' = Left(c, "handle_search", "returned")
                  /\ s_status' = handle_search_finally(s_status, s_calls[c].operation_id)
            [] OTHER ->
                  /\ s_calls' = Left(c, "handle_search", "raised")
                  /\ s_status' = handle_search_finally(s_status, s_calls[c].operation_id)
    /\ UNCHANGED gvars
    /\ UNCHANGED evars
    /\ UNCHANGED tvars
    /\ UNCHANGED rvars
    /\ UNCHANGED fvars
    /\ UNCHANGED lvars
    /\ UNCHANGED wvars
    /\ UNCHANGED avars
    /\ UNCHANGED nvars
    /\ UNCHANGED cvars
    /\ UNCHANGED kvars

\* "await self.add_marker_and_center(lat, lon, zoom=13)" returns or raises;
\* after coordinates the handler returns inside the try
HandleSearchMarked(c) ==
    /\ s_calls[c].handler = "handle_search"
    /\ s_calls[c].pc = "await_marker"
    /\ \E outcome \in {"ok", "raise"} :
          /\ s_calls' = Left(c, "handle_search",
                             IF outcome = "raise" THEN "raised"
                             ELSE IF s_calls[c].how = "coordinates" THEN "early_return"
                             ELSE "returned")
          /\ s_status' = handle_search_finally(s_status, s_calls[c].operation_id)
    /\ UNCHANGED gvars
    /\ UNCHANGED evars
    /\ UNCHANGED tvars
    /\ UNCHANGED rvars
    /\ UNCHANGED fvars
    /\ UNCHANGED lvars
    /\ UNCHANGED wvars
    /\ UNCHANGED avars
    /\ UNCHANGED nvars
    /\ UNCHANGED cvars
    /\ UNCHANGED kvars

\* show_route_connector up to its first await: fewer than two markers, a
\* dismissed dialog or fewer than two selected markers leave before
\* start_loading; otherwise one route is fetched per pair of neighbours
RouteConnectorStart(c) ==
    /\ s_calls[c].pc = "idle"
    /\ \E routes \in 0..MaxRoutes :
          IF routes = 0
          THEN /\ s_calls' = NotStarted(c, "show_route_connector")
               /\ UNCHANGED s_status
          ELSE /\ s_calls' = Running(c, "show_route_connector", "await_route", routes, "none")
               /\ s_status' = start_loading(s_status)
    /\ UNCHANGED gvars
    /\ UNCHANGED evars
    /\ UNCHANGED tvars
    /\ UNCHANGED rvars
    /\ UNCHANGED fvars
    /\ UNCHANGED lvars
    /\ UNCHANGED wvars
    /\ UNCHANGED avars
    /\ UNCHANGED nvars
    /\ UNCHANGED cvars
    /\ UNCHANGED kvars

\* "route_data = await RouteService.get_route(start, end)" gives a route or
\* None, or the loop body raises; after the last route the handler ends
RouteConnectorFetched(c) ==
    /\ s_calls[c].handler = "show_route_connector"
    /\ s_calls[c].pc = "await_route"
    /\ \E outcome \in {"route", "none", "raise"} :
          IF outcome = "raise"
          THEN /\ s_calls' = Left(c, "show_route_connector", "raised")
               /\ s_status' = show_route_connector_finally(s_status, s_calls[c].operation_id)
          ELSE IF s_calls[c].left > 1
          THEN /\ s_calls' = Running(c, "show_route_connector", "await_route",
                                     s_calls[c].left - 1, "none")
               /\ UNCHANGED s_status
          ELSE /\ s_calls' = Left(c, "show_route_connector", "returned")
               /\ s_status' = show_route_connector_finally(s_status, s_calls[c].operation_id)
    /\ UNCHANGED gvars
    /\ UNCHANGED evars
    /\ UNCHANGED tvars
    /\ UNCHANGED rvars
    /\ UNCHANGED fvars
    /\ UNCHANGED lvars
    /\ UNCHANGED wvars
    /\ UNCHANGED avars
    /\ UNCHANGED nvars
    /\ UNCHANGED cvars
    /\ UNCHANGED kvars

\* EmailLookup.run up to its first await: an entity that is no Email or has
\* no address returns before start_loading
EmailRunStart(c) ==
    /\ s_calls[c].pc = "idle"
    /\ \E has_address \in BOOLEAN :
          IF ~has_address
          THEN /\ s_calls' = NotStarted(c, "EmailLookup.run")
               /\ UNCHANGED s_status
          ELSE /\ s_calls' = Running(c, "EmailLookup.run", "await_auth", 0, "none")
               /\ s_status' = start_loading(s_status)
    /\ UNCHANGED gvars
    /\ UNCHANGED evars
    /\ UNCHANGED tvars
    /\ UNCHANGED rvars
    /\ UNCHANGED fvars
    /\ UNCHANGED lvars
    /\ UNCHANGED wvars
    /\ UNCHANGED avars
    /\ UNCHANGED nvars
    /\ UNCHANGED cvars
    /\ UNCHANGED kvars

\* "await auth.load_and_auth(as_client)": a failure returns [] inside the try
EmailRunAuthenticated(c) ==
    /\ s_calls[c].handler = "EmailLookup.run"
    /\ s_calls[c].pc = "await_auth"
    /\ \E outcome \in {"ok", "raise"} :
          IF outcome = "ok"
          THEN /\ s_calls' = Running(c, "EmailLookup.run", "await_lookup", 0, "none")
               /\ UNCHANGED s_status
          ELSE /\ s_calls' = Left(c, "EmailLookup.run", "early_return")
               /\ s_status' = EmailLookup_run_finally(s_status, s_calls[c].operation_id)
    /\ UNCHANGED gvars
    /\ UNCHANGED evars
    /\ UNCHANGED tvars
    /\ UNCHANGED rvars
    /\ UNCHANGED fvars
    /\ UNCHANGED lvars
    /\ UNCHANGED wvars
    /\ UNCHANGED avars
    /\ UNCHANGED nvars
    /\ UNCHANGED cvars
    /\ UNCHANGED kvars

\* "await people_pa.people_lookup(...)": found, not found (return []), raises
EmailRunLookedUp(c) ==
    /\ s_calls[c].handler = "EmailLookup.run"
    /\ s_calls[c].pc = "await_lookup"
    /\ \E outcome \in {"found", "not_found", "raise"} :
          IF outcome = "found"
          THEN /\ s_calls' = Running(c, "EmailLookup.run", "await_fetch", 0, "none")
               /\ UNCHANGED s_status
          ELSE /\ s_calls' = Left(c, "EmailLookup.run",
                                  IF outcome = "raise" THEN "raised" ELSE "early_return")
               /\ s_status' = EmailLookup_run_finally(s_status, s_calls[c].operation_id)
    /\ UNCHANGED gvars
    /\ UNCHANGED evars
    /\ UNCHANGED tvars
    /\ UNCHANGED rvars
    /\ UNCHANGED fvars
    /\ UNCHANGED lvars
    /\ UNCHANGED wvars
    /\ UNCHANGED avars
    /\ UNCHANGED nvars
    /\ UNCHANGED cvars
    /\ UNCHANGED kvars

\* "await self._fetch_additional_data(...)"
EmailRunFetched(c) ==
    /\ s_calls[c].handler = "EmailLookup.run"
    /\ s_calls[c].pc = "await_fetch"
    /\ \E outcome \in {"ok", "raise"} :
          IF outcome = "ok"
          THEN /\ s_calls' = Running(c, "EmailLookup.run", "await_process", 0, "none")
               /\ UNCHANGED s_status
          ELSE /\ s_calls' = Left(c, "EmailLookup.run", "raised")
               /\ s_status' = EmailLookup_run_finally(s_status, s_calls[c].operation_id)
    /\ UNCHANGED gvars
    /\ UNCHANGED evars
    /\ UNCHANGED tvars
    /\ UNCHANGED rvars
    /\ UNCHANGED fvars
    /\ UNCHANGED lvars
    /\ UNCHANGED wvars
    /\ UNCHANGED avars
    /\ UNCHANGED nvars
    /\ UNCHANGED cvars
    /\ UNCHANGED kvars

\* "entities = await self._process_ghunt_results(...)" and the return
EmailRunProcessed(c) ==
    /\ s_calls[c].handler = "EmailLookup.run"
    /\ s_calls[c].pc = "await_process"
    /\ \E outcome \in {"ok", "raise"} :
          /\ s_calls' = Left(c, "EmailLookup.run",
                             IF outcome = "raise" THEN "raised" ELSE "returned")
          /\ s_status' = EmailLookup_run_finally(s_status, s_calls[c].operation_id)
    /\ UNCHANGED gvars
    /\ UNCHANGED evars
    /\ UNCHANGED tvars
    /\ UNCHANGED rvars
    /\ UNCHANGED fvars
    /\ UNCHANGED lvars
    /\ UNCHANGED wvars
    /\ UNCHANGED avars
    /\ UNCHANGED nvars
    /\ UNCHANGED cvars
    /\ UNCHANGED kvars

\* the username search: run returns [] for an entity that is no Username or
\* has no username; otherwise _run_sync starts in a thread, calls
\* start_loading and searches Bing
UsernameRunStart(c) ==
    /\ s_calls[c].pc = "idle"
    /\ \E has_username \in BOOLEAN :
          IF ~has_username
          THEN /\ s_calls' = NotStarted(c, "_run_sync")
               /\ UNCHANGED s_status
          ELSE /\ s_calls' = Running(c, "_run_sync", "search_bing", 0, "none")
               /\ s_status' = start_loading(s_status)
    /\ UNCHANGED gvars
    /\ UNCHANGED evars
    /\ UNCHANGED tvars
    /\ UNCHANGED rvars
    /\ UNCHANGED fvars
    /\ UNCHANGED lvars
    /\ UNCHANGED wvars
    /\ UNCHANGED avars
    /\ UNCHANGED nvars
    /\ UNCHANGED cvars
    /\ UNCHANGED kvars

\* _search_bing returns: its results, or none after its own "except Exception"
UsernameBingSearched(c) ==
    /\ s_calls[c].handler = "_run_sync"
    /\ s_calls[c].pc = "search_bing"
    /\ \E outcome \in {"ok", "raise"} :
          s_calls' = Running(c, "_run_sync", "search_google", 0,
                             IF outcome = "raise" THEN "raised" ELSE "none")
    /\ UNCHANGED s_status
    /\ UNCHANGED gvars
    /\ UNCHANGED evars
    /\ UNCHANGED tvars
    /\ UNCHANGED rvars
    /\ UNCHANGED fvars
    /\ UNCHANGED lvars
    /\ UNCHANGED wvars
    /\ UNCHANGED avars
    /\ UNCHANGED nvars
    /\ UNCHANGED cvars
    /\ UNCHANGED kvars

\* _search_google returns likewise; set_text and stop_loading follow
UsernameGoogleSearched(c) ==
    /\ s_calls[c].handler = "_run_sync"
    /\ s_calls[c].pc = "search_google"
    /\ \E outcome \in {"ok", "raise"} :
          s_calls' = Left(c, "_run_sync",
                          IF outcome = "raise" \/ s_calls[c].how = "raised"
                          THEN "raised" ELSE "returned")
    /\ s_status' = stop_loading(s_status, s_calls[c].operation_id)
    /\ UNCHANGED gvars
    /\ UNCHANGED evars
    /\ UNCHANGED tvars
    /\ UNCHANGED rvars
    /\ UNCHANGED fvars
    /\ UNCHANGED lvars
    /\ UNCHANGED wvars
    /\ UNCHANGED avars
    /\ UNCHANGED nvars
    /\ UNCHANGED cvars
    /\ UNCHANGED kvars

\* an awaited call of handler c returns or raises and the handler goes on
Resumes(c) ==
    \/ HandleSearchGeocoded(c)
    \/ HandleSearchMarked(c)
    \/ RouteConnectorFetched(c)
    \/ EmailRunAuthenticated(c)
    \/ EmailRunLookedUp(c)
    \/ EmailRunFetched(c)
    \/ EmailRunProcessed(c)
    \/ UsernameBingSearched(c)
    \/ UsernameGoogleSearched(c)

NextLoading ==
    \/ \E c \in Calls : HandleSearchStart(c)
    \/ \E c \in Calls : RouteConnectorStart(c)
    \/ \E c \in Calls : EmailRunStart(c)
    \/ \E c \in Calls : UsernameRunStart(c)
    \/ \E c \in Calls : Resumes(c)

SpecLoading == Init /\ [][NextLoading]_vars

\* every awaited network call ends (it returns or raises) and the event loop
\* resumes the handler that awaited it
FairLoading == SpecLoading /\ \A c \in Calls : WF_vars(Resumes(c))

(***************************************************************************)
(* Properties of the graph manager.                                        *)
(***************************************************************************)
\* arguments the methods are tried with in every reachable state
FarPos == [x |-> MaxCoord + 1, y |-> 0]
ProbePositions == Positions \cup {FarPos}
ProbeEntities ==
    GraphEntities \cup {Entity(id, ty, None, None, TRUE) : id \in Ids, ty \in EntityTypes}

Idle == pc = "idle"

\* C1: both endpoints of every edge of the edges collection are nodes that
\* are in the nodes collection (no dangling edge), in every reachable state.
C1_NoDanglingEdge ==
    \A eid \in DOMAIN edges :
        /\ RefPresent(nodes, edges[eid].source)
        /\ RefPresent(nodes, edges[eid].target)

\* C2: remove_node(id) on a present id removes that node and exactly the
\* edges whose source or target is that id; no edge refers to the removed
\* node afterwards, every other node and edge is kept unchanged.
C2_RemoveNodeExact ==
    Idle =>
    \A node_id \in DOMAIN nodes :
        LET g == remove_node(GState, node_id)
            incident == {eid \in DOMAIN edges : eid[1] = node_id \/ eid[2] = node_id}
        IN  /\ g.nodes = Restrict(nodes, DOMAIN nodes \ {node_id})
            /\ g.edges = Restrict(edges, DOMAIN edges \ incident)
            /\ \A eid \in DOMAIN g.edges :
                  /\ g.edges[eid].source # Live(node_id)
                  /\ g.edges[eid].target # Live(node_id)
                  /\ (RefPresent(nodes, edges[eid].source)
                        => RefPresent(g.nodes, g.edges[eid].source))
                  /\ (RefPresent(nodes, edges[eid].target)
                        => RefPresent(g.nodes, g.edges[eid].target))

\* C3: add_node is idempotent by entity id: a call with an entity whose id
\* is already a key of nodes returns the existing node, changes no node
\* (entity and position stay), no edge, and notifies neither map nor timeline.
C3_AddNodeIdempotent ==
    Idle =>
    \A entity \in ProbeEntities, pos \in ProbePositions :
        entity.id \in DOMAIN nodes =>
            LET g == add_node(GState, entity, pos)
            IN  /\ g.ret = <<"node", "existing">>
                /\ g.nodes = nodes
                /\ g.edges = edges
                /\ g.timeline = timeline
                /\ g.map_locations = map_locations
                /\ g.notes = <<>>

C3_Witness ==
    /\ lastOp.op = "add_node"
    /\ lastOp.ret = <<"node", "existing">>
    /\ \E k \in DOMAIN nodes : nodes[k].node.type = "Event"
    /\ \E k \in DOMAIN nodes : nodes[k].node.type = "Location"

\* C4: add_edge is idempotent on the (source, target) pair: a second
\* add_edge for the pair returns the edge of the first call, adds nothing
\* and keeps the relationship of the first call whatever relationship the
\* second call passes.
C4_AddEdgeIdempotent ==
    Idle =>
    \A s \in Ids, t \in Ids, r1 \in Relationships, r2 \in Relationships :
        LET g1 == add_edge(GState, s, t, r1)
            g2 == add_edge(g1, s, t, r2)
        IN  /\ g2.edges = g1.edges
            /\ g2.nodes = g1.nodes
            /\ (g1.ret[1] = "edge" => g2.ret = <<"edge", "existing">>)
            /\ (g1.ret = <<"edge", "new">>
                  => g2.edges[edge_id(s, t)].relationship = r1)
            /\ (edge_id(s, t) \in DOMAIN edges /\ g2.ret[1] = "edge"
                  => g2.edges[edge_id(s, t)] = edges[edge_id(s, t)])

C4_Witness ==
    /\ lastOp.op = "add_edge"
    /\ lastOp.ret = <<"edge", "existing">>
    /\ \E eid \in DOMAIN edges : edges[eid].relationship \notin DrawnRelationships

\* C5: add_edge returns nothing and leaves nodes and edges unchanged when
\* source_id or target_id is not a node of the graph.
C5_AddEdgeMissingEndpoint ==
    Idle =>
    \A s \in Ids, t \in Ids, r \in Relationships :
        (s \notin DOMAIN nodes \/ t \notin DOMAIN nodes) =>
            LET g == add_edge(GState, s, t, r)
            IN  /\ g.ret = <<"None">>
                /\ g.nodes = nodes
                /\ g.edges = edges

C5_Witness ==
    /\ lastOp.op = "add_edge"
    /\ lastOp.ret = <<"None">>
    /\ Cardinality(DOMAIN nodes) = 1
    /\ DOMAIN edges # {}

\* C6: remove_node(id) with an id that is not in the graph changes neither
\* nodes, edges, timeline nor map, and notifies no collaborator.
C6_RemoveNodeUnknown ==
    Idle =>
    \A node_id \in Ids :
        node_id \notin DOMAIN nodes =>
            LET g == remove_node(GState, node_id)
            IN  /\ g.nodes = nodes
                /\ g.edges = edges
                /\ g.timeline = timeline
                /\ g.map_locations = map_locations
                /\ g.notes = <<>>

C6_Witness ==
    /\ lastOp.op = "remove_node"
    /\ lastOp.notes = <<>>
    /\ Cardinality(DOMAIN nodes) = 1
    /\ timeline # <<>>
    /\ map_locations # {}

\* C7: after clear() nodes and edges are both empty, and the edges go
\* first: while clear() still has nodes to remove there is no edge left.
C7_ClearEdgesFirst ==
    /\ (pc = "clear_nodes" => DOMAIN edges = {})
    /\ (lastOp.op = "clear" /\ Idle => DOMAIN nodes = {} /\ DOMAIN edges = {})

C7_Witness ==
    /\ pc = "clear_nodes"
    /\ DOMAIN nodes # {}
    /\ Len(lastOp.notes) = MaxEdges


\* what a document restores: the entity ids of its node entries, the first
\* node entry of an id, the first and the last edge entry of a pair
DocIds(data) == {from_dict_of(data.nodes[i].entity).id : i \in DOMAIN data.nodes}
FirstNodeEntry(data, id) ==
    data.nodes[CHOOSE i \in DOMAIN data.nodes :
                  /\ from_dict_of(data.nodes[i].entity).id = id
                  /\ \A j \in 1..(i - 1) : from_dict_of(data.nodes[j].entity).id # id]
DocPairs(data) ==
    {edge_id(data.edges[i].source, data.edges[i].target) : i \in
        {j \in DOMAIN data.edges : /\ data.edges[j].source \in DocIds(data)
                                   /\ data.edges[j].target \in DocIds(data)}}
EntriesOfPair(data, eid) ==
    {i \in DOMAIN data.edges : edge_id(data.edges[i].source, data.edges[i].target) = eid}
Min(S) == CHOOSE i \in S : \A j \in S : i <= j
Max(S) == CHOOSE i \in S : \A j \in S : i >= j

\* C8: from_dict(data) is a destructive load: when it has completed, the
\* nodes are exactly the entities restored from data['nodes'] and the edges
\* exactly those of data['edges'] whose two endpoints were restored;
\* nothing of the state before survives, nothing is merged.
C8_FromDictDestructive ==
    Idle =>
    \A data \in Documents \cup Snapshots :
        LET g == from_dict(GState, data)
        IN  g.ret # <<"raise">> =>
            /\ DOMAIN g.nodes = DocIds(data)
            /\ \A id \in DocIds(data) :
                  /\ g.nodes[id].node = from_dict_of(FirstNodeEntry(data, id).entity)
                  /\ g.nodes[id].pos = FirstNodeEntry(data, id).pos
            /\ DOMAIN g.edges = DocPairs(data)
            /\ \A eid \in DocPairs(data) :
                  /\ g.edges[eid].source = Live(eid[1])
                  /\ g.edges[eid].target = Live(eid[2])
                  /\ g.edges[eid].relationship =
                        data.edges[Min(EntriesOfPair(data, eid))].relationship
                  /\ g.edges[eid].style =
                        data.edges[Max(EntriesOfPair(data, eid))].style

C8_Witness ==
    /\ lastOp.op = "from_dict"
    /\ lastOp.ret = <<"None">>
    /\ \E i \in DOMAIN lastOp.notes : lastOp.notes[i] = <<"scene.removeItem", "edge">>
    /\ Cardinality(DOMAIN nodes) = 1
    /\ DOMAIN edges = {}

\* what a snapshot is about: the id and position of every node, and the
\* endpoints' ids, relationship and style of every edge
NodeView(ns) == {<<ns[k].node.id, ns[k].pos>> : k \in DOMAIN ns}
EdgeView(ns, es) ==
    {<<RefId(ns, es[eid].source), RefId(ns, es[eid].target),
       es[eid].relationship, es[eid].style>> : eid \in DOMAIN es}

\* C9: snapshot round trip: from_dict(to_dict(G)) has the node ids of G,
\* the position of each node, the (source, target) edges of G and the
\* relationship and line style of each edge.
C9_SnapshotRoundTrip ==
    Idle =>
    \A data \in Snapshots :
        LET g == from_dict(GState, data)
        IN  /\ g.ret # <<"raise">>
            /\ NodeView(g.nodes) = NodeView(nodes)
            /\ EdgeView(g.nodes, g.edges) = EdgeView(nodes, edges)


(***************************************************************************)
(* Properties of the entity serialisation.                                 *)
(***************************************************************************)
\* C10: entity round trip: from_dict(to_dict(e)) has exactly the properties
\* of e; the datetime start_date and end_date of an Event are written as
\* ISO-8601 strings and come back as datetimes equal to the originals.
C10_EntityRoundTrip ==
    /\ (e_pc \in {"dict", "json"} /\ e_entity.type = "Event" =>
          /\ (isinstance_datetime(e_entity.start_date)
                => e_data.start_date = isoformat(e_entity.start_date))
          /\ (isinstance_datetime(e_entity.end_date)
                => e_data.end_date = isoformat(e_entity.end_date)))
    /\ (e_pc = "back" => e_back = e_entity)

\* C11: a malformed (non-ISO) persisted start_date or end_date never causes
\* an error: from_dict restores the Event, the raw string is kept as the
\* date value and get_display_properties shows it.
C11_MalformedDateFallback ==
    (e_pc \in {"back", "back_shown"}
        /\ (e_data.start_date = Malformed \/ e_data.end_date = Malformed)) =>
        /\ e_back # Raised
        /\ e_back.start_date = e_data.start_date
        /\ e_back.end_date = e_data.end_date
        /\ (e_pc = "back_shown" =>
              /\ (e_data.start_date = Malformed => e_shown.start_date = Malformed)
              /\ (e_data.end_date = Malformed => e_shown.end_date = Malformed))


(***************************************************************************)
(* Properties of the edits.                                                *)
(***************************************************************************)
\* C12: in every reachable state each property of a graph entity that has
\* a declared validator holds a value the validator accepts: an edit
\* (property editor, AI update) that supplies a rejected value is blocked.
C12_ValidatedProperties ==
    \A k \in DOMAIN nodes :
        nodes[k].node.type = "Event" =>
            /\ datetime_validator(nodes[k].node.start_date)
            /\ datetime_validator(nodes[k].node.end_date)


(***************************************************************************)
(* Properties of the timeline and the map.                                 *)
(***************************************************************************)
\* the number of timeline events whose source_entity_id is X
EventsOf(X) == Len(SelectSeq(timeline, LAMBDA e : e.source_entity_id = X))

\* X is the id of an Event node that has both dates and is not kept off
\* the timeline
QualifyingEvent(X) ==
    \E k \in DOMAIN nodes :
        /\ nodes[k].node.id = X
        /\ nodes[k].node.type = "Event"
        /\ goes_to_timeline(nodes[k].node)

\* C13: after any sequence of add_node, update_node and remove_node the
\* timeline holds exactly one event with source_entity_id X when X is the
\* id of an Event node with start_date, end_date and add_to_timeline not
\* false, and no event with source_entity_id X otherwise.
C13_TimelineMatchesEvents ==
    \A X \in Ids : EventsOf(X) = IF QualifyingEvent(X) THEN 1 ELSE 0

\* C15: with a map manager set before any node is added, after any
\* sequence of add_node, update_node and remove_node the ids the map
\* manager shows (update_location with no later remove_location) are
\* exactly the ids of the Location nodes of the graph.
C15_MapMatchesLocations ==
    map_manager =>
        map_locations =
            {nodes[k].node.id : k \in {j \in DOMAIN nodes : nodes[j].node.type = "Location"}}

\* the notes of a call that tell the timeline to add an event
Forwarded(g) == {i \in DOMAIN g.notes : g.notes[i][1] = "add_event"}

\* C14: an Event whose add_to_timeline flag is false is never forwarded to
\* the timeline, on any path that adds or edits it: GraphManager.add_node,
\* GraphManager.update_node, GraphView.add_node and
\* GraphView.sync_event_to_timeline.
C14_FlagFalseNeverForwarded ==
    Idle =>
    \A id \in Ids, start \in EditorDateValues, end \in EditorDateValues, pos \in Positions :
        LET entity == Event(id, start, end, FALSE)
        IN  /\ Forwarded(add_node(GState, entity, pos)) = {}
            /\ Forwarded(update_node(GState, id, entity)) = {}
            /\ Forwarded(GraphView_add_node(GState, entity, pos)) = {}
            /\ Forwarded(sync_event_to_timeline(GState, entity)) = {}

\* C16: when the map or the timeline collaborator raises while add_node,
\* update_node or remove_node notifies it, the graph mutation is still
\* carried out: nodes and edges end as if the notification had succeeded.
C16_NotificationBestEffort ==
    Idle =>
    \A failing \in SUBSET Collaborators, id \in Ids :
        /\ \A entity \in NodeEntitiesOf(id), pos \in Positions :
              LET g == add_node_raising(GState, entity, pos, failing)
                  h == add_node(GState, entity, pos)
              IN  g.nodes = h.nodes /\ g.edges = h.edges
        /\ \A entity \in NodeEntitiesOf(id) :
              LET g == update_node_raising(GState, id, entity, failing)
                  h == update_node(GState, id, entity)
              IN  g.nodes = h.nodes /\ g.edges = h.edges
        /\ LET g == remove_node_raising(GState, id, failing)
               h == remove_node(GState, id)
           IN  g.nodes = h.nodes /\ g.edges = h.edges


(***************************************************************************)
(* Properties of the transforms.                                           *)
(***************************************************************************)
\* the source of the transform that is awaited, as _execute_transform
\* reads it when transform.run is over
AwaitedSourceId == IF t_scene THEN nodes[t_source].node.id ELSE t_source
AwaitedSourcePos == IF t_scene THEN nodes[t_source].pos ELSE DocPos

C18_ResultsConnectedToSource ==
    (Idle /\ t_pc = "awaiting") =>
    \A outcome \in Outcomes :
        LET g == execute_transform(GState, AwaitedSourceId, AwaitedSourcePos,
                                   t_scene, outcome)
        IN  /\ (g.ret[2] # "added" => g.nodes = nodes /\ g.edges = edges)
            /\ (g.ret[2] = "added" =>
                  \A i \in DOMAIN outcome.entities :
                      /\ outcome.entities[i].id \in DOMAIN g.nodes
                      /\ AwaitedSourceId \in DOMAIN g.nodes
                      /\ edge_id(AwaitedSourceId, outcome.entities[i].id) \in DOMAIN g.edges)

C18_Witness ==
    /\ lastOp.op = "transform"
    /\ lastOp.ret = <<"None", "added">>
    /\ Cardinality(DOMAIN nodes) = MaxNodes
    /\ \A k \in DOMAIN nodes : edge_id(t_source, k) \in DOMAIN edges

Elems(q) == {q[i] : i \in DOMAIN q}

\* C19: a transform whose sub-steps partly fail still returns every entity
\* its sub-steps derived: whatever was appended to the list of the run is
\* in the list the run returns (a run that raises returns nothing).
C19_PartialResultsReturned ==
    r_name # "none" =>
        Elems(r_result.derived) \subseteq Elems(r_result.entities)

EntriesOf(tl, id) == SelectSeq(tl, LAMBDA e : e.source_entity_id = id)
SavedQualifying ==
    {id \in DOMAIN f_nodes :
        f_nodes[id].node.type = "Event" /\ goes_to_timeline(f_nodes[id].node)}

\* C20: after a saved file is loaded, every Event of the saved graph that
\* had both dates and add_to_timeline true has exactly one timeline entry,
\* keyed by its identifier, that starts and ends at the instants of its
\* entry at the time of the save.
C20_TimelineSurvivesSaveLoad ==
    lastOp.op = "load_investigation" =>
        \A id \in SavedQualifying :
            /\ Len(EntriesOf(f_timeline, id)) = 1
            /\ Len(EntriesOf(timeline, id)) = 1
            /\ EntriesOf(timeline, id)[1].start_time.t = EntriesOf(f_timeline, id)[1].start_time.t
            /\ EntriesOf(timeline, id)[1].end_time.t = EntriesOf(f_timeline, id)[1].end_time.t

\* C22: every key of nodes is the id of the entity of the node stored under
\* it, and every key of edges is "<source id>-><target id>" of the edge
\* stored under it, also after update_node(node_id, entity) with an entity
\* whose id is not node_id.
C22_KeysMatchIds ==
    /\ \A k \in DOMAIN nodes : nodes[k].node.id = k
    /\ \A eid \in DOMAIN edges :
          eid = edge_id(RefId(nodes, edges[eid].source), RefId(nodes, edges[eid].target))

TimelineSources == {timeline[i].source_entity_id : i \in DOMAIN timeline}

\* C23: after clear() or from_dict() the timeline holds no event whose
\* source_entity_id is not the id of a node of the graph, and the map holds
\* no location of an id that is not a node of the graph.
C23_NoOrphansAfterClear ==
    ((lastOp.op = "clear" /\ pc = "idle") \/ lastOp.op = "from_dict") =>
        /\ TimelineSources \subseteq {nodes[k].node.id : k \in DOMAIN nodes}
        /\ map_locations \subseteq {nodes[k].node.id : k \in DOMAIN nodes}

\* C21: on every path that edits the properties of an entity, the label
\* handed to the visuals and to the graph manager is the one update_label
\* derives from the properties after the edit, never the one of the
\* properties before it.
C21_LabelAfterEdit ==
    l_path # "none" =>
        /\ l_entity.label = format_label(l_entity.props)
        /\ \A i \in DOMAIN l_seen : l_seen[i] = format_label(l_entity.props)

C21_Witness ==
    /\ l_path = "edit_properties"
    /\ l_before.props.name # l_entity.props.name
    /\ Len(l_seen) = 2
    /\ l_seen[2] # l_before.label

ContainedIn(groups) ==
    UNION {{groups[g].contained_by[k][i] : i \in DOMAIN groups[g].contained_by[k]} :
              g \in DOMAIN groups, k \in EventIds \cap UNION {DOMAIN groups[h].contained_by : h \in DOMAIN groups}}
ChildrenOf(groups, S) ==
    UNION {{groups[g].contained_by[k][i] : i \in DOMAIN groups[g].contained_by[k]} :
              g \in DOMAIN groups, k \in S \cap UNION {DOMAIN groups[h].contained_by : h \in DOMAIN groups}}
RECURSIVE ReachFrom(_, _)
ReachFrom(groups, S) ==
    LET N == S \cup ChildrenOf(groups, S)
    IN  IF N = S THEN S ELSE ReachFrom(groups, N)

\* C24: after _detect_overlaps no event is contained, directly or through
\* others, by itself, and every event is top-level or reachable from a
\* top-level event through contained_by, so that paintEvent draws it.
C24_ContainmentIsForest ==
    w_op \in {"add_event", "delete_event"} =>
        /\ \A id \in WidgetIds : id \notin ReachFrom(w_groups, ChildrenOf(w_groups, {id}))
        /\ ReachFrom(w_groups, WidgetIds \ ContainedIn(w_groups)) = WidgetIds

\* C25: after add_event, delete_event and accepted edits the events are
\* ordered by non-decreasing start_time and event_groups is what
\* _detect_overlaps gives for the current events.
C25_EventsSortedGroupsCurrent ==
    /\ \A i \in DOMAIN w_events : \A j \in DOMAIN w_events :
          i < j => w_events[i].start_time <= w_events[j].start_time
    /\ w_groups = detect_overlaps(w_events)

\* the node created or matched for entities[i], i counted from 0
NodeOfEntry(data, i) ==
    IF i + 1 \in DOMAIN data.entities THEN data.entities[i + 1].node ELSE NoNode

\* C26: the edges a create operation adds are, for every connection
\* {from: i, to: j}, the edge from the node of entities[i] to the node of
\* entities[j], also when an earlier entry was passed over; a connection
\* between a node and itself adds none.
C26_ConnectionsJoinTheirEntries ==
    a_op = "create" =>
        {a_edges[k] : k \in DOMAIN a_edges}
          = {<<NodeOfEntry(a_data, a_data.connections[c].from),
               NodeOfEntry(a_data, a_data.connections[c].to)>> :
                c \in {d \in DOMAIN a_data.connections :
                          /\ NodeOfEntry(a_data, a_data.connections[d].from) # NoNode
                          /\ NodeOfEntry(a_data, a_data.connections[d].to) # NoNode
                          /\ NodeOfEntry(a_data, a_data.connections[d].from)
                               # NodeOfEntry(a_data, a_data.connections[d].to)}}

\* C27: when a refresh_nodes call completes, the list holds an item for
\* exactly the nodes of the graph, also when nodes were added or removed while
\* it was suspended and when two calls overlap
C27_ListMatchesGraph ==
    n_op = "completed" => n_items = dict_keys(n_dict)

\* the graph and the timeline hold exactly the entries of the file
HoldsFile(data) ==
    /\ DOMAIN nodes = {data.nodes[i].id : i \in DOMAIN data.nodes}
    /\ \A i \in DOMAIN data.nodes :
          /\ nodes[data.nodes[i].id].node.id = data.nodes[i].id
          /\ nodes[data.nodes[i].id].node.type = data.nodes[i].entity_type
    /\ DOMAIN edges = {data.edges[i].id : i \in DOMAIN data.edges}
    /\ {timeline[i].source_entity_id : i \in DOMAIN timeline}
          = {data.nodes[i].id : i \in {j \in DOMAIN data.nodes : data.nodes[j].entity_type = "Event"}}
    /\ Len(timeline) = Cardinality({timeline[i].source_entity_id : i \in DOMAIN timeline})

\* C28: when two load_investigation calls overlapped and both have completed,
\* the nodes, the edges and the timeline entries are exactly those of one of
\* the two files, and current_file names that file
C28_OverlappingLoadsGiveOneFile ==
    (/\ c_overlap
     /\ \A t \in LoadTasks : c_tasks[t].pc = "done"
     /\ lastOp.op = "load_investigation")
    => \E t \in LoadTasks :
          /\ c_file = c_tasks[t].file_name
          /\ HoldsFile(InvestigationFiles[c_file])

\* C29: every Event made from a calendar item carries the start and the end
\* of that item; an item whose dates are missing or unreadable gives no Event
\* with the dates of an earlier item
C29_EventCarriesItsItemsDates ==
    k_op = "processed" =>
        \A j \in DOMAIN k_events :
            /\ k_events[j].start_date = strptime_ymd_hm(calendar_date_text(k_items[k_events[j].name].start))
            /\ k_events[j].end_date = strptime_ymd_hm(calendar_date_text(k_items[k_events[j].name].end))

\* C30: every start_loading issued by handle_search, show_route_connector,
\* EmailLookup.run or the username search is eventually followed by
\* stop_loading with the same operation id, on every path (early returns and
\* errors of the awaited calls included)
C30_LoadingEventuallyStops ==
    \A operation_id \in OperationIds :
        (operation_id \in s_status.started) ~> (operation_id \in s_status.stopped)

\* two handlers have left, one by an early return and one after an awaited
\* call raised, and both their operations were stopped
C30_Witness ==
    \E c \in Calls, d \in Calls :
        /\ s_calls[c].pc = "done" /\ s_calls[c].how = "raised"
        /\ s_calls[d].pc = "done" /\ s_calls[d].how = "early_return"
        /\ s_calls[c].operation_id \in s_status.stopped
        /\ s_calls[d].operation_id \in s_status.stopped
        /\ s_calls[c].operation_id # s_calls[d].operation_id

=============================================================================
